---- MODULE Spec2Model ----
(***************************************************************************)
(* warthog618/gpio: the edge-interrupt Watcher (interrupt.go) and the      *)
(* register map lifecycle (mem.go, dio.go).                                *)
(*                                                                         *)
(* Spec       the Watcher: RegisterPin / UnregisterPin / Close, the watch  *)
(*            loop, the handler goroutines, and the kernel side of the     *)
(*            sysfs + epoll interface the code talks to; two lines.        *)
(* SpecBusy   one line, two handlers: registering a registered line.       *)
(* SpecClose  one line, two threads calling Watcher.Close.                 *)
(* SpecEdge   one line, every edge setting.                                *)
(* SpecMem    Open / Close / NewPin on the process-wide register map,      *)
(*            with the default Watcher that gpio.Close tears down.         *)
(***************************************************************************)
EXTENDS Integers, Sequences, FiniteSets, TLC

\* ------------------------------------------------------------ bounds
MaxLines == 2       \* GPIO lines the callers use
MaxHandlers == 2    \* distinct handler functions
MaxRegs == 2        \* successful registrations in one behaviour
MaxDrives == 2      \* external level transitions in one behaviour
MaxCallers == 2     \* threads that may call Watcher.Close
MaxFd == 2          \* descriptors the process may hold for value files
MaxPins == 2        \* Pin objects the callers hold
MaxToggles == 2     \* Toggle calls in a row on one Pin
MaxBeyond == 1      \* line numbers tried on either side of the supported range
MaxThreads == 2     \* threads calling SetMode and SetPull at once
MaxMappings == 3    \* mappings of /dev/gpiomem the process may hold at once

Lines == 1..MaxLines
Handlers == 1..MaxHandlers
Callers == 1..MaxCallers
Fds == 1..MaxFd

\* Edge, interrupt.go; an unexported line has no edge file, kept as "none"
EdgeNone == "none"
EdgeRising == "rising"
EdgeFalling == "falling"
EdgeBoth == "both"
Edges == {EdgeNone, EdgeRising, EdgeFalling, EdgeBoth}

\* errors
NoErr == "nil"
ErrBusy == "ErrBusy"
ErrTimeout == "ErrTimeout"
ErrAlreadyOpen == "ErrAlreadyOpen"
ErrIO == "EIO"
Panic == "panic"

\* The read end of the shutdown pipe, donefds[0], as an epoll event's Fd.
DoneFd == 0

\* Faults the operating system may answer a RegisterPin step with.
\* "slow": the value file of a fresh export becomes writable only at the last
\* permitted try; "timeout", "timeoutEdge": the value file, the edge file, does
\* not become writable in time.
Faults == {"none", "exportOpen", "slow", "timeout", "timeoutEdge", "setEdge", "openValue",
           "nonblock", "epollctl"}

VARIABLES
    \* ---- Watcher (guarded by the Watcher's mutex)
    interruptFds,   \* map pin -> value fd      [nil, tab]
    interrupts,     \* map fd -> interrupt      [nil, tab]; interrupt = [pin, handler, valueFile, reg]
    closed,         \* Watcher.closed
    doneCh,         \* "open" | "closed"
    \* ---- the watch goroutine
    wpc,            \* "none" (no Watcher yet) | "wait" (in EpollWait) |
                    \* "events" (in the for loop) | "exited"
    batch,          \* the events EpollWait returned that the loop has not handled yet
    \* ---- handler goroutines started by `go irq.handler(irq.pin)` and not yet run
    goroutines,     \* reg -> number of them
    \* ---- callers of Watcher.Close
    cpc,            \* caller -> "idle" | "waitDone" | "returned" | "returnedEarly"
    \* ---- kernel: sysfs gpio, descriptors, epoll
    exported,       \* lines present under /sys/class/gpio
    edgeCfg,        \* line -> contents of its edge file
    level,          \* line -> BOOLEAN, the level on the wire
    openFds,        \* open value-file descriptors: fd -> line
    epfdOpen,       \* the epoll descriptor is open
    epReg,          \* descriptors in the epoll interest list
    rdllist,        \* epoll ready list (no duplicates)
    \* ---- the outcome of the last API call
    ret,            \* [op, err, sys]; sys = the sysfs writes the call made
    \* ---- history, for the properties
    regs,           \* registrations made so far, by id
    drives,         \* level transitions so far
    firedAfterClose,\* a handler ran after a Close that waited for the loop returned
    \* ---- register map (mem.go)
    memlock,        \* 0 when free, else the caller of Close that holds it
    mem,            \* the []uint32 view: [len], len = 0 when unmapped
    mem8,           \* the []uint8 behind it: "nil" | "mapped" | "unmapped"
    mappings,       \* live mappings of /dev/gpiomem in the process
    defaultWatcher, \* "nil" | "live"
    newPin,         \* the last NewPin call: [arg, res, p]
    \* ---- the GPIO block behind the register map, and the callers' Pin objects
    gpfsel,         \* function select registers: index -> 32-bit word
    gpout,          \* lines whose output latch is high (set / clear registers)
    looped,         \* lines 1 and 2 are joined by a jumper
    pinObj,         \* caller's variable -> the Pin it holds (NoPin: none)
    pinRet,         \* the last call on a Pin: [op, obj, panic, level, mode]
    toggled,        \* history: object -> [base, n], the shadow before the Toggle
    \* ---- pull control, and the threads inside SetMode and SetPull
    chipset,        \* the chip detected: BCM2835 | BCM2711
    gppud,          \* pull selector register 37 (BCM2835): the set of its bits that are 1
    gpclk,          \* bank -> clock-latch register 38 + bank (BCM2835), as a set of bits
    gppull,         \* 57..60 -> pull register (BCM2711), as a set of bits
    pulls,          \* line -> the selector the BCM2835 pad control has latched
    tpc             \* thread -> [pc, op, o, arg, tmp, log], its place in a call
                    \* calls made since it was last set otherwise, and their number

wvars == <<interruptFds, interrupts, closed, doneCh, wpc, batch, goroutines, cpc,
           exported, edgeCfg, level, openFds, epfdOpen, epReg, rdllist, ret,
           regs, drives, firedAfterClose>>
mvars == <<memlock, mem, mem8, mappings, defaultWatcher, newPin>>
rvars == <<chipset, gppud, gpclk, gppull, pulls, tpc>>
pvars == <<gpfsel, gpout, looped, pinObj, pinRet, toggled, rvars>>
vars == <<wvars, mvars, pvars>>

\* ------------------------------------------------------------ Go maps
NilMap == [nil |-> TRUE, tab |-> <<>>]
EmptyMap == [nil |-> FALSE, tab |-> <<>>]
MapHas(m, k) == k \in DOMAIN m.tab
MapGet(m, k) == m.tab[k]
MapPut(m, k, v) == [m EXCEPT !.tab = (k :> v) @@ m.tab]
MapDel(m, k) == [m EXCEPT !.tab = [x \in (DOMAIN m.tab) \ {k} |-> m.tab[x]]]

\* ------------------------------------------------------------ helpers
SeqWithout(s, x) == SelectSeq(s, LAMBDA y : y # x)
InSeq(s, x) == \E i \in 1..Len(s) : s[i] = x
AppendNew(s, x) == IF InSeq(s, x) THEN s ELSE Append(s, x)

\* The registration whose record is stored for a line, 0 if none.
LiveReg(pin) ==
    IF MapHas(interruptFds, pin) /\ MapHas(interrupts, MapGet(interruptFds, pin))
    THEN MapGet(interrupts, MapGet(interruptFds, pin)).reg
    ELSE 0
Live(r) == \E fd \in DOMAIN interrupts.tab : interrupts.tab[fd].reg = r

\* ------------------------------------------------------------ kernel side
\* open(2) returns the lowest descriptor that is free.
FreeFds == Fds \ DOMAIN openFds
LowestFree == CHOOSE fd \in FreeFds : \A g \in FreeFds : fd <= g

\* close(2) of a value file: the descriptor leaves the table and the epoll instance.
CloseFdTab(tab, fd) == [x \in (DOMAIN tab) \ {fd} |-> tab[x]]

\* Does a transition to level `new` raise an interrupt under edge setting e?
EdgeMatches(e, new) ==
    \/ e = EdgeBoth
    \/ e = EdgeRising /\ new = TRUE
    \/ e = EdgeFalling /\ new = FALSE

\* The descriptors epoll wakes for a transition of line `pin` to `new`.
Woken(pin, new) ==
    IF pin \in exported /\ EdgeMatches(edgeCfg[pin], new)
    THEN {fd \in epReg : fd \in DOMAIN openFds /\ openFds[fd] = pin}
    ELSE {}

\* ep_poll_callback: a woken descriptor is linked into the ready list unless it
\* already is there.
RECURSIVE Enqueue(_, _)
Enqueue(rl, fds) ==
    IF fds = {} THEN rl
    ELSE LET fd == CHOOSE x \in fds : \A y \in fds : x <= y
         IN Enqueue(AppendNew(rl, fd), fds \ {fd})

\* The level of a line changes (the wire is driven from outside).
Drive(pin) ==
    /\ drives < MaxDrives
    /\ drives' = drives + 1
    /\ level' = [level EXCEPT ![pin] = ~level[pin]]
    /\ rdllist' = Enqueue(rdllist, Woken(pin, ~level[pin]))
    /\ regs' = [r \in DOMAIN regs |->
                 IF regs[r].pin # pin THEN regs[r]
                 ELSE IF LiveReg(pin) = r
                 THEN [regs[r] EXCEPT !.trans = @ + 1,
                          !.matched = @ + (IF EdgeMatches(edgeCfg[pin], ~level[pin])
                                           THEN 1 ELSE 0),
                          !.early = @ \/ regs[r].fired = 0]
                 ELSE [regs[r] EXCEPT !.post = TRUE]]
    /\ UNCHANGED <<interruptFds, interrupts, closed, doneCh, wpc, batch, goroutines, cpc,
                   exported, edgeCfg, openFds, epfdOpen, epReg, ret, firedAfterClose>>
    /\ UNCHANGED <<mvars, pvars>>

\* The runtime's finalizer closes an *os.File nothing refers to any more.
Finalize(fd) ==
    /\ fd \in DOMAIN openFds
    /\ \A x \in DOMAIN interrupts.tab : interrupts.tab[x].valueFile # fd
    /\ openFds' = CloseFdTab(openFds, fd)
    /\ epReg' = epReg \ {fd}
    /\ rdllist' = SeqWithout(rdllist, fd)
    /\ UNCHANGED <<interruptFds, interrupts, closed, doneCh, wpc, batch, goroutines, cpc,
                   exported, edgeCfg, level, epfdOpen, ret, regs, drives, firedAfterClose>>
    /\ UNCHANGED <<mvars, pvars>>

\* ------------------------------------------------------------ RegisterPin
\* What the properties need to know of a registration: its line, the handler it
\* was made with, how often a handler was run for it, the transitions of the line
\* while it was stored (trans), those among them that match the edge setting
\* (matched), whether one of them came before the handler first ran (early), and
\* whether the line moved after the registration was removed (post).
NewReg(pin, handler) ==
    [pin |-> pin, handler |-> handler, fired |-> 0, trans |-> 0, matched |-> 0,
     early |-> FALSE, post |-> FALSE]

\* A return that leaves the line exported whatever the call did.
RegReturnExported(pin, err, sys, ex, ec, ofd, er, rl, ifds, irqs, rg) ==
    /\ ret' = [op |-> "RegisterPin", err |-> err, sys |-> sys]
    /\ exported' = ex \cup (IF sys # <<>> THEN {pin} ELSE {})
    /\ edgeCfg' = ec
    /\ openFds' = ofd
    /\ epReg' = er
    /\ rdllist' = rl
    /\ interruptFds' = ifds
    /\ interrupts' = irqs
    /\ regs' = rg
    /\ UNCHANGED <<closed, doneCh, wpc, batch, goroutines, cpc, level, epfdOpen,
                   drives, firedAfterClose>>
    /\ UNCHANGED <<mvars, pvars>>

\* A return that stores the descriptor of the line but no interrupt record.
RegReturnNoRecord(pin, err, sys, ex, ec, ofd, er, rl, ifds, irqs, rg) ==
    /\ ret' = [op |-> "RegisterPin", err |-> err, sys |-> sys]
    /\ exported' = ex
    /\ edgeCfg' = ec
    /\ openFds' = ofd
    /\ epReg' = er
    /\ rdllist' = rl
    /\ interruptFds' = ifds
    /\ regs' = rg
    /\ UNCHANGED <<interrupts, closed, doneCh, wpc, batch, goroutines, cpc, level,
                   epfdOpen, drives, firedAfterClose>>
    /\ UNCHANGED <<mvars, pvars>>

RegReturn(pin, err, sys, ex, ec, ofd, er, rl, ifds, irqs, rg) ==
    /\ ret' = [op |-> "RegisterPin", err |-> err, sys |-> sys]
    /\ exported' = ex
    /\ edgeCfg' = ec
    /\ openFds' = ofd
    /\ epReg' = er
    /\ rdllist' = rl
    /\ interruptFds' = ifds
    /\ interrupts' = irqs
    /\ regs' = rg
    /\ UNCHANGED <<closed, doneCh, wpc, batch, goroutines, cpc, level, epfdOpen,
                   drives, firedAfterClose>>
    /\ UNCHANGED <<mvars, pvars>>

\* waitWriteable, line 516-526
maxTry == 10

\* The waitWriteable loop from its condition on: `try` tries failed so far, the
\* next `failing` calls of unix.Access fail. The result is the error and the
\* number of time.Sleep calls made.
RECURSIVE WaitLoop(_, _)
WaitLoop(try, failing) ==
    IF failing = 0
    THEN [err |-> NoErr, sleeps |-> try]
    ELSE IF try + 1 > maxTry
         THEN [err |-> ErrTimeout, sleeps |-> try]
         ELSE WaitLoop(try + 1, failing - 1)

\* waitWriteable that gives up one try earlier.
waitWriteableShort(failing) ==
    IF failing >= maxTry THEN [err |-> ErrTimeout, sleeps |-> maxTry - 1]
    ELSE [err |-> NoErr, sleeps |-> failing]

\* waitWriteable, line 516-526
waitWriteable(failing) == WaitLoop(0, failing)

\* How many calls of unix.Access fail on the value and on the edge file of the
\* line just exported.
FailingValue(fault) ==
    IF fault = "slow" THEN maxTry ELSE IF fault = "timeout" THEN maxTry + 1 ELSE 0
FailingEdge(fault) ==
    IF fault = "slow" THEN 1 ELSE IF fault = "timeoutEdge" THEN maxTry + 1 ELSE 0

\* waitExported, line 572-579
waitExported(fault) ==
    LET v == waitWriteable(FailingValue(fault)) IN
    IF v.err # NoErr THEN v
    ELSE LET e == waitWriteable(FailingEdge(fault))
         IN [err |-> e.err, sleeps |-> v.sleeps + e.sleeps]

\* What a call that exported the line did on sysfs up to the end of export:
\* the write to the export file and the sleeps of waitWriteable.
Exported(fault) == <<"export">> \o [i \in 1..waitExported(fault).sleeps |-> "sleep"]

\* RegisterPin from line 449 on: the line has no entry in interruptFds.
RegisterFresh(pin, edge, handler, fault) ==
    LET fd == LowestFree
        ex1 == exported \cup {pin}
        ec0 == [edgeCfg EXCEPT ![pin] = EdgeNone]      \* a fresh export
        ec1 == [edgeCfg EXCEPT ![pin] = edge]          \* setEdge
        of1 == (fd :> pin) @@ openFds                  \* openValue
        irq == [pin |-> pin, handler |-> handler, valueFile |-> fd, reg |-> Len(regs) + 1]
    IN
    IF fault = "exportOpen"
    THEN \* export: the export file cannot be opened
         RegReturn(pin, ErrIO, <<>>, exported, edgeCfg, openFds, epReg, rdllist,
                   interruptFds, interrupts, regs)
    ELSE IF pin \in exported
    THEN \* export: the write fails with EBUSY, line 535-537
         RegReturn(pin, ErrBusy, <<"export">>, exported, edgeCfg, openFds, epReg, rdllist,
                   interruptFds, interrupts, regs)
    ELSE IF waitExported(fault).err # NoErr
    THEN \* export: written, but waitExported gives up; returned at line 449-451,
         \* before the deferred unexport is installed
         RegReturn(pin, waitExported(fault).err, Exported(fault), ex1, ec0, openFds,
                   epReg, rdllist, interruptFds, interrupts, regs)
    ELSE IF fault = "setEdge"
    THEN RegReturn(pin, ErrIO, Exported(fault) \o <<"unexport">>, exported, edgeCfg,
                   openFds, epReg, rdllist, interruptFds, interrupts, regs)
    ELSE IF fault = "openValue" \/ FreeFds = {}
    THEN RegReturn(pin, ErrIO, Exported(fault) \o <<"edge", "unexport">>, exported,
                   edgeCfg, openFds, epReg, rdllist, interruptFds, interrupts, regs)
    ELSE IF fault = "nonblock" \/ fault = "epollctl" \/ ~epfdOpen
    THEN \* the value file stays open: nothing closes it on these paths
         RegReturn(pin, ErrIO, Exported(fault) \o <<"edge", "unexport">>, exported,
                   edgeCfg, of1, epReg, rdllist, interruptFds, interrupts, regs)
    ELSE IF interruptFds.nil
    THEN \* line 474: assignment to an entry of a nil map panics; err is nil, so
         \* the deferred function does not unexport
         RegReturn(pin, Panic, Exported(fault) \o <<"edge">>, ex1, ec1, of1,
                   epReg \cup {fd}, AppendNew(rdllist, fd), interruptFds, interrupts, regs)
    ELSE /\ Len(regs) < MaxRegs
         /\ RegReturn(pin, NoErr, Exported(fault) \o <<"edge">>, ex1, ec1, of1,
                   epReg \cup {fd}, AppendNew(rdllist, fd),
                   MapPut(interruptFds, pin, fd), MapPut(interrupts, fd, irq),
                   Append(regs, NewReg(pin, handler)))

\* RegisterPin without the check of line 445-448.
RegisterPinUnchecked(pin, edge, handler, fault) ==
    RegisterFresh(pin, edge, handler, fault)

\* Watcher.RegisterPin, the whole call: it holds the Watcher's mutex throughout.
RegisterPin(pin, edge, handler, fault) ==
    IF MapHas(interruptFds, pin)
    THEN \* line 445-448
         RegReturn(pin, ErrBusy, <<>>, exported, edgeCfg, openFds, epReg, rdllist,
                   interruptFds, interrupts, regs)
    ELSE RegisterFresh(pin, edge, handler, fault)

\* ------------------------------------------------------------ UnregisterPin
UnregReturn(sys) == ret' = [op |-> "UnregisterPin", err |-> NoErr, sys |-> sys]

\* UnregisterLive that leaves the record and its value file behind.
UnregisterLiveKeepsRecord(pin) ==
    LET pinFd == MapGet(interruptFds, pin)
    IN
    /\ interruptFds' = MapDel(interruptFds, pin)
    /\ epReg' = epReg \ {pinFd}
    /\ rdllist' = SeqWithout(rdllist, pinFd)
    /\ exported' = exported \ {pin}
    /\ edgeCfg' = [edgeCfg EXCEPT ![pin] = EdgeNone]
    /\ UnregReturn(<<"unexport">>)
    /\ UNCHANGED <<interrupts, openFds, closed, doneCh, wpc, batch, goroutines, cpc,
                   level, epfdOpen, regs, drives, firedAfterClose>>
    /\ UNCHANGED <<mvars, pvars>>

\* UnregisterPin from line 488 on: the line has an entry in interruptFds.
UnregisterLive(pin) ==
    LET pinFd == MapGet(interruptFds, pin)
        has == MapHas(interrupts, pinFd)
    IN
    /\ interruptFds' = MapDel(interruptFds, pin)
    \* EPOLL_CTL_DEL
    /\ epReg' = epReg \ {pinFd}
    /\ rdllist' = SeqWithout(rdllist, pinFd)
    /\ interrupts' = IF has THEN MapDel(interrupts, pinFd) ELSE interrupts
    /\ openFds' = IF has THEN CloseFdTab(openFds, MapGet(interrupts, pinFd).valueFile)
                  ELSE openFds
    /\ exported' = exported \ {pin}
    /\ edgeCfg' = [edgeCfg EXCEPT ![pin] = EdgeNone]
    /\ UnregReturn(<<"unexport">>)
    /\ UNCHANGED <<closed, doneCh, wpc, batch, goroutines, cpc, level, epfdOpen, regs,
                   drives, firedAfterClose>>
    /\ UNCHANGED <<mvars, pvars>>

\* UnregisterPin without the early return of line 485-487: the steps run with
\* the zero descriptor, and the line is unexported.
UnregisterPinUnchecked(pin) ==
    IF MapHas(interruptFds, pin)
    THEN UnregisterLive(pin)
    ELSE /\ exported' = exported \ {pin}
         /\ edgeCfg' = [edgeCfg EXCEPT ![pin] = EdgeNone]
         /\ UnregReturn(<<"unexport">>)
         /\ UNCHANGED <<interruptFds, interrupts, closed, doneCh, wpc, batch, goroutines,
                        cpc, level, openFds, epfdOpen, epReg, rdllist, regs, drives,
                        firedAfterClose>>
         /\ UNCHANGED <<mvars, pvars>>

\* UnregisterPin that only forgets the line: the record, the descriptor and the
\* export stay.
UnregisterPinForgetful(pin) ==
    /\ interruptFds' = IF MapHas(interruptFds, pin) THEN MapDel(interruptFds, pin)
                       ELSE interruptFds
    /\ UnregReturn(<<>>)
    /\ UNCHANGED <<interrupts, closed, doneCh, wpc, batch, goroutines, cpc, exported,
                   edgeCfg, level, openFds, epfdOpen, epReg, rdllist, regs, drives,
                   firedAfterClose>>
    /\ UNCHANGED <<mvars, pvars>>

\* Watcher.UnregisterPin, the whole call, under the mutex.
UnregisterPin(pin) ==
    IF ~MapHas(interruptFds, pin)
    THEN \* line 484-487
         /\ UnregReturn(<<>>)
         /\ UNCHANGED <<interruptFds, interrupts, closed, doneCh, wpc, batch, goroutines,
                        cpc, exported, edgeCfg, level, openFds, epfdOpen, epReg, rdllist,
                        regs, drives, firedAfterClose>>
         /\ UNCHANGED <<mvars, pvars>>
    ELSE UnregisterLive(pin)

\* ------------------------------------------------------------ Watcher.Close
Unexports(n) == [i \in 1..n |-> "unexport"]

\* Close that drops the records without closing their value files and without
\* unexporting their lines.
CloseLockedWDrops(c) ==
    /\ cpc[c] = "idle"
    /\ \A d \in Callers : d < c => cpc[d] # "idle"    \* callers are interchangeable
    /\ IF closed
       THEN \* line 419-422
            /\ cpc' = [cpc EXCEPT ![c] = "returnedEarly"]
            /\ ret' = [op |-> "Close", err |-> NoErr, sys |-> <<>>]
            /\ UNCHANGED <<interruptFds, interrupts, closed, exported, edgeCfg, openFds,
                           epReg, rdllist>>
       ELSE /\ closed' = TRUE
            \* unix.Write(w.donefds[1], "bye"): the read end becomes readable
            /\ rdllist' = IF epfdOpen THEN AppendNew(rdllist, DoneFd) ELSE rdllist
            /\ UNCHANGED <<openFds, epReg, exported, edgeCfg>>
            /\ interrupts' = NilMap
            /\ interruptFds' = NilMap
            /\ cpc' = [cpc EXCEPT ![c] = "waitDone"]
            /\ ret' = [op |-> "Close", err |-> NoErr,
                       sys |-> <<>>]
    /\ UNCHANGED <<doneCh, wpc, batch, goroutines, level, epfdOpen, regs, drives,
                   firedAfterClose>>

\* Close, line 418-432: the part under the mutex.
CloseLockedW(c) ==
    /\ cpc[c] = "idle"
    /\ \A d \in Callers : d < c => cpc[d] # "idle"    \* callers are interchangeable
    /\ IF closed
       THEN \* line 419-422
            /\ cpc' = [cpc EXCEPT ![c] = "returnedEarly"]
            /\ ret' = [op |-> "Close", err |-> NoErr, sys |-> <<>>]
            /\ UNCHANGED <<interruptFds, interrupts, closed, exported, edgeCfg, openFds,
                           epReg, rdllist>>
       ELSE LET recs == {interrupts.tab[fd] : fd \in DOMAIN interrupts.tab}
                files == {i.valueFile : i \in recs}
                pins == {i.pin : i \in recs}
            IN
            /\ closed' = TRUE
            \* unix.Write(w.donefds[1], "bye"): the read end becomes readable
            /\ rdllist' = LET rl == SelectSeq(rdllist, LAMBDA fd : fd \notin files)
                          IN IF epfdOpen THEN AppendNew(rl, DoneFd) ELSE rl
            /\ openFds' = [fd \in (DOMAIN openFds) \ files |-> openFds[fd]]
            /\ epReg' = epReg \ files
            /\ exported' = exported \ pins
            /\ edgeCfg' = [l \in Lines |-> IF l \in pins THEN EdgeNone ELSE edgeCfg[l]]
            /\ interrupts' = NilMap
            /\ interruptFds' = NilMap
            /\ cpc' = [cpc EXCEPT ![c] = "waitDone"]
            /\ ret' = [op |-> "Close", err |-> NoErr,
                       sys |-> Unexports(Cardinality(DOMAIN interrupts.tab))]
    /\ UNCHANGED <<doneCh, wpc, batch, goroutines, level, epfdOpen, regs, drives,
                   firedAfterClose>>

\* Watcher.Close called on the Watcher directly.
CloseLocked(c) ==
    /\ CloseLockedW(c)
    /\ UNCHANGED <<mvars, pvars>>

\* Close, line 433-435: <-w.doneCh, then the write end is closed and Close returns.
CloseWait(c) ==
    /\ cpc[c] = "waitDone"
    /\ doneCh = "closed"
    /\ cpc' = [cpc EXCEPT ![c] = "returned"]
    /\ UNCHANGED <<interruptFds, interrupts, closed, doneCh, wpc, batch, goroutines,
                   exported, edgeCfg, level, openFds, epfdOpen, epReg, rdllist, ret,
                   regs, drives, firedAfterClose>>
    /\ UNCHANGED <<mvars, pvars>>

\* ------------------------------------------------------------ the watch loop
\* unix.EpollWait returns the ready events; an edge-triggered descriptor leaves
\* the ready list, the level-triggered shutdown pipe stays ready until it is read.
EpollWait ==
    /\ wpc = "wait"
    /\ epfdOpen
    /\ rdllist # <<>>
    /\ batch' = rdllist
    /\ rdllist' = SelectSeq(rdllist, LAMBDA fd : fd = DoneFd)
    /\ wpc' = "events"
    /\ UNCHANGED <<interruptFds, interrupts, closed, doneCh, goroutines, cpc, exported,
                   edgeCfg, level, openFds, epfdOpen, epReg, ret, regs, drives,
                   firedAfterClose>>
    /\ UNCHANGED <<mvars, pvars>>

\* line 392-396: the shutdown descriptor; the deferred close(w.doneCh) runs.
WatchShutdown ==
    /\ wpc = "events"
    /\ batch # <<>>
    /\ Head(batch) = DoneFd
    /\ epfdOpen' = FALSE
    /\ epReg' = {}
    /\ rdllist' = <<>>
    /\ batch' = <<>>
    /\ doneCh' = "closed"
    /\ wpc' = "exited"
    /\ UNCHANGED <<interruptFds, interrupts, closed, goroutines, cpc, exported, edgeCfg,
                   level, openFds, ret, regs, drives, firedAfterClose>>
    /\ UNCHANGED <<mvars, pvars>>

\* The loop calls the handler itself instead of starting a goroutine: it gets
\* to its next event only when the handlers started so far have returned.
WatchDispatchInline ==
    /\ \A r \in DOMAIN goroutines : goroutines[r] = 0
    /\ wpc = "events"
    /\ batch # <<>>
    /\ Head(batch) # DoneFd
    /\ goroutines' = IF MapHas(interrupts, Head(batch))
                     THEN [goroutines EXCEPT ![MapGet(interrupts, Head(batch)).reg] = @ + 1]
                     ELSE goroutines
    /\ batch' = Tail(batch)
    /\ wpc' = IF Tail(batch) = <<>> THEN "wait" ELSE "events"
    /\ UNCHANGED <<interruptFds, interrupts, closed, doneCh, cpc, exported, edgeCfg,
                   level, openFds, epfdOpen, epReg, rdllist, ret, regs, drives,
                   firedAfterClose>>
    /\ UNCHANGED <<mvars, pvars>>

\* The loop looks the event's Fd up under memlock instead of the Watcher's
\* mutex: it waits while gpio.Close or a call of SetMode holds the lock.
WatchDispatchMemlock ==
    /\ memlock = 0
    /\ wpc = "events"
    /\ batch # <<>>
    /\ Head(batch) # DoneFd
    /\ goroutines' = IF MapHas(interrupts, Head(batch))
                     THEN [goroutines EXCEPT ![MapGet(interrupts, Head(batch)).reg] = @ + 1]
                     ELSE goroutines
    /\ batch' = Tail(batch)
    /\ wpc' = IF Tail(batch) = <<>> THEN "wait" ELSE "events"
    /\ UNCHANGED <<interruptFds, interrupts, closed, doneCh, cpc, exported, edgeCfg,
                   level, openFds, epfdOpen, epReg, rdllist, ret, regs, drives,
                   firedAfterClose>>
    /\ UNCHANGED <<mvars, pvars>>

\* line 397-402: look the event's Fd up under the mutex and start the handler.
WatchDispatch ==
    /\ wpc = "events"
    /\ batch # <<>>
    /\ Head(batch) # DoneFd
    /\ goroutines' = IF MapHas(interrupts, Head(batch))
                     THEN [goroutines EXCEPT ![MapGet(interrupts, Head(batch)).reg] = @ + 1]
                     ELSE goroutines
    /\ batch' = Tail(batch)
    /\ wpc' = IF Tail(batch) = <<>> THEN "wait" ELSE "events"
    /\ UNCHANGED <<interruptFds, interrupts, closed, doneCh, cpc, exported, edgeCfg,
                   level, openFds, epfdOpen, epReg, rdllist, ret, regs, drives,
                   firedAfterClose>>
    /\ UNCHANGED <<mvars, pvars>>

\* A goroutine started by `go irq.handler(irq.pin)` gets to run the handler.
HandlerRun(r) ==
    /\ goroutines[r] > 0
    /\ goroutines' = [goroutines EXCEPT ![r] = @ - 1]
    /\ regs' = [regs EXCEPT ![r].fired = @ + 1]
    /\ firedAfterClose' = (firedAfterClose \/ \E c \in Callers : cpc[c] = "returned")
    /\ UNCHANGED <<interruptFds, interrupts, closed, doneCh, wpc, batch, cpc, exported,
                   edgeCfg, level, openFds, epfdOpen, epReg, rdllist, ret, drives>>
    /\ UNCHANGED <<mvars, pvars>>


\* ------------------------------------------------------------ the register map
\* dio.go
MaxGPIOPin == 28
memLength == 4096
Low == FALSE
High == TRUE
EINVAL == "EINVAL"

\* The line numbers callers pass to NewPin.
PinArgs == (0 - MaxBeyond)..(MaxGPIOPin - 1 + MaxBeyond)

RECURSIVE BitAnd(_, _)
BitAnd(x, y) ==
    IF x = 0 \/ y = 0 THEN 0
    ELSE (x % 2) * (y % 2) + 2 * BitAnd(x \div 2, y \div 2)

RECURSIVE SumOver(_, _)
SumOver(S, f) ==
    IF S = {} THEN 0
    ELSE LET x == CHOOSE y \in S : TRUE IN f[x] + SumOver(S \ {x}, f)

RECURSIVE BitOr(_, _)
BitOr(x, y) ==
    IF x = 0 THEN y
    ELSE IF y = 0 THEN x
    ELSE (IF x % 2 = 1 \/ y % 2 = 1 THEN 1 ELSE 0) + 2 * BitOr(x \div 2, y \div 2)

\* x &^ y, x << n and x >> n on uint32
AndNot(x, y) == x - BitAnd(x, y)
Shl(x, n) == IF n = 0 THEN x ELSE (x % 2 ^ (32 - n)) * 2 ^ n
Shr(x, n) == x \div (2 ^ n)

\* dio.go, line 334 and 340-350
modeMask == 7
Input == 0
Output == 1
Alt5 == 2
Alt4 == 3
Alt0 == 4
Alt1 == 5
Alt2 == 6
Alt3 == 7
Modes == {Input, Output, Alt5, Alt4, Alt0, Alt1, Alt2, Alt3}

SupportedLines == 0..(MaxGPIOPin - 1)

\* Mode and SetMode, line 501 and 527: the shift of a line's mode field.
ModeShift(pin) == (pin % 10) * 3
\* Mode, line 502: the field of a function select word.
ModeField(word, modeShift) == BitAnd(Shr(word, modeShift), modeMask)
\* The function the GPIO block has selected for a line.
ModeOfLine(l) == ModeField(gpfsel[l \div 10], ModeShift(l))

\* The level on the pad of a line. A line in Output mode drives its pad, and
\* the pad of a line joined to it, with its output latch; otherwise the pad
\* follows what is applied to the wire from outside, and an unconnected line
\* reads low.
Net(l) == IF looped /\ l \in {1, 2} THEN {1, 2} ELSE {l}
Drivers(l) == {d \in Net(l) : ModeOfLine(d) = Output}
PadLevel(l) ==
    IF l \in Drivers(l) THEN l \in gpout
    ELSE IF Drivers(l) # {} THEN (CHOOSE d \in Drivers(l) : TRUE) \in gpout
    ELSE LET w == CHOOSE x \in Net(l) : \A y \in Net(l) : x <= y
         IN w \in Lines /\ level[w]

\* The word the level register of a bank holds: one bit per line, set when the
\* pad is high.
LevelWord(bank) ==
    SumOver({l \in (Lines \cup gpout) \cap SupportedLines : l \div 32 = bank /\ PadLevel(l)},
            [l \in SupportedLines |-> 2 ^ (l % 32)])

\* The lines of a bank a word written to its set or clear register names.
MaskLines(bank, mask) ==
    {l \in SupportedLines : l \div 32 = bank /\ BitAnd(mask, 2 ^ (l % 32)) # 0}

NoPin ==
    [pin |-> 0 - 1, fsel |-> 0, bank |-> 0, mask |-> 0, levelReg |-> 0, clearReg |-> 0,
     setReg |-> 0, pullReg2711 |-> 0, shadow |-> Low]

\* PinOf with sixteen lines to a bank.
PinOfBank16(pin) ==
    LET bank == pin \div 16
        mask == 2 ^ (pin % 32)
        shadow == IF BitAnd(LevelWord(pin \div 32), mask) # 0 THEN High ELSE Low
    IN [pin |-> pin, fsel |-> pin \div 10, bank |-> bank, mask |-> mask,
        levelReg |-> 13 + bank, clearReg |-> 10 + bank, setReg |-> 7 + bank,
        pullReg2711 |-> 57 + pin \div 16, shadow |-> shadow]

\* PinOf with the mask bit taken modulo sixteen.
PinOfFolded(pin) ==
    LET bank == pin \div 32
        mask == 2 ^ (pin % 16)
        shadow == IF BitAnd(LevelWord(bank), 2 ^ (pin % 32)) # 0 THEN High ELSE Low
    IN [pin |-> pin, fsel |-> pin \div 10, bank |-> bank, mask |-> mask,
        levelReg |-> 13 + bank, clearReg |-> 10 + bank, setReg |-> 7 + bank,
        pullReg2711 |-> 57 + pin \div 16, shadow |-> shadow]

\* PinOf that starts the shadow at Low whatever the level register holds.
PinOfShadowLow(pin) ==
    LET bank == pin \div 32
    IN [pin |-> pin, fsel |-> pin \div 10, bank |-> bank, mask |-> 2 ^ (pin % 32),
        levelReg |-> 13 + bank, clearReg |-> 10 + bank, setReg |-> 7 + bank,
        pullReg2711 |-> 57 + pin \div 16, shadow |-> Low]

\* NewPin, line 438-475: the Pin a supported line number yields.
PinOf(pin) ==
    LET fsel == pin \div 10
        bank == pin \div 32
        mask == 2 ^ (pin % 32)
        levelReg == 13 + bank
        clearReg == 10 + bank
        setReg == 7 + bank
        pullReg == 57 + pin \div 16
        shadow == IF BitAnd(LevelWord(levelReg - 13), mask) # 0 THEN High ELSE Low
    IN [pin |-> pin, fsel |-> fsel, bank |-> bank, mask |-> mask, levelReg |-> levelReg,
        clearReg |-> clearReg, setReg |-> setReg, pullReg2711 |-> pullReg,
        shadow |-> shadow]

\* The parts of the state NewPin, Open, Close and getDefaultWatcher leave alone.
kernelAndHistory == <<goroutines, cpc, exported, edgeCfg, level, openFds, regs, drives,
                      firedAfterClose>>
watcherFields == <<interruptFds, interrupts, closed, doneCh, wpc, batch, epfdOpen, epReg,
                   rdllist>>

\* NewPin without the range check (a line number accepted one past the range).
NewPinLax(pin) ==
    /\ newPin' = IF mem.len = 0
                 THEN [arg |-> pin, res |-> Panic, p |-> NoPin]
                 ELSE IF pin < 0 \/ pin > MaxGPIOPin
                      THEN [arg |-> pin, res |-> "nil", p |-> NoPin]
                      ELSE [arg |-> pin, res |-> "pin", p |-> PinOf(pin)]
    /\ ret' = [op |-> "NewPin", err |-> IF newPin'.res = Panic THEN Panic ELSE NoErr,
               sys |-> <<>>]
    /\ UNCHANGED <<memlock, mem, mem8, mappings, defaultWatcher>>
    /\ UNCHANGED <<kernelAndHistory, watcherFields, pvars>>

\* NewPin without the check that the map is open.
NewPinUnguarded(pin) ==
    /\ newPin' = IF pin < 0 \/ pin >= MaxGPIOPin
                 THEN [arg |-> pin, res |-> "nil", p |-> NoPin]
                 ELSE [arg |-> pin, res |-> "pin", p |-> PinOf(pin)]
    /\ ret' = [op |-> "NewPin", err |-> IF newPin'.res = Panic THEN Panic ELSE NoErr,
               sys |-> <<>>]
    /\ UNCHANGED <<memlock, mem, mem8, mappings, defaultWatcher>>
    /\ UNCHANGED <<kernelAndHistory, watcherFields, pvars>>

\* NewPin, line 431-476. It takes no lock.
NewPinCall(pin) ==
    /\ newPin' = IF mem.len = 0
                 THEN [arg |-> pin, res |-> Panic, p |-> NoPin]
                 ELSE IF pin < 0 \/ pin >= MaxGPIOPin
                      THEN [arg |-> pin, res |-> "nil", p |-> NoPin]
                      ELSE [arg |-> pin, res |-> "pin", p |-> PinOf(pin)]
    /\ ret' = [op |-> "NewPin", err |-> IF newPin'.res = Panic THEN Panic ELSE NoErr,
               sys |-> <<>>]
    /\ UNCHANGED <<memlock, mem, mem8, mappings, defaultWatcher>>
    /\ UNCHANGED <<kernelAndHistory, watcherFields>>

\* NewPin whose result the caller does not keep.
NewPin(pin) ==
    /\ NewPinCall(pin)
    /\ UNCHANGED pvars

\* (*Pin).Pin, line 511-513
PinNumber(p) == p.pin

\* Open that maps again over an open map.
OpenUnchecked(devOk, mmapOk) ==
    /\ (devOk => memlock = 0)
    /\ IF ~devOk
       THEN /\ ret' = [op |-> "Open", err |-> ErrIO, sys |-> <<>>]
            /\ UNCHANGED <<mem, mem8, mappings>>
       ELSE IF ~mmapOk
            THEN /\ mem8' = "nil"
                 /\ mappings' = mappings
                 /\ ret' = [op |-> "Open", err |-> ErrIO, sys |-> <<>>]
                 /\ UNCHANGED mem
            ELSE /\ mem8' = "mapped"
                 /\ mappings' = mappings + 1
                 /\ mem' = [len |-> memLength \div 4]
                 /\ ret' = [op |-> "Open", err |-> NoErr, sys |-> <<>>]
    /\ UNCHANGED <<memlock, defaultWatcher, newPin>>
    /\ UNCHANGED <<kernelAndHistory, watcherFields, pvars>>

\* Open that sets up the word view although Mmap failed.
OpenKeepsView(devOk, mmapOk) ==
    /\ ((mem.len = 0 /\ devOk) => memlock = 0)
    /\ IF mem.len # 0
       THEN \* line 32-34
            /\ ret' = [op |-> "Open", err |-> ErrAlreadyOpen, sys |-> <<>>]
            /\ UNCHANGED <<mem, mem8, mappings>>
       ELSE IF ~devOk
            THEN \* line 40-42
                 /\ ret' = [op |-> "Open", err |-> ErrIO, sys |-> <<>>]
                 /\ UNCHANGED <<mem, mem8, mappings>>
            ELSE IF ~mmapOk
                 THEN \* line 49-58: mem8 takes Mmap's nil result
                      /\ mem8' = "nil"
                      /\ mappings' = mappings
                      /\ ret' = [op |-> "Open", err |-> ErrIO, sys |-> <<>>]
                      /\ mem' = [len |-> memLength \div 4]
                 ELSE \* line 60-67
                      /\ mem8' = "mapped"
                      /\ mappings' = mappings + 1
                      /\ mem' = [len |-> memLength \div 4]
                      /\ ret' = [op |-> "Open", err |-> NoErr, sys |-> <<>>]
    /\ UNCHANGED <<memlock, defaultWatcher, newPin>>
    /\ UNCHANGED <<kernelAndHistory, watcherFields, pvars>>

\* mem.go Open, line 31-68. devOk: /dev/gpiomem can be opened; mmapOk: it can be
\* mapped.
Open(devOk, mmapOk) ==
    /\ ((mem.len = 0 /\ devOk) => memlock = 0)
    /\ IF mem.len # 0
       THEN \* line 32-34
            /\ ret' = [op |-> "Open", err |-> ErrAlreadyOpen, sys |-> <<>>]
            /\ UNCHANGED <<mem, mem8, mappings>>
       ELSE IF ~devOk
            THEN \* line 40-42
                 /\ ret' = [op |-> "Open", err |-> ErrIO, sys |-> <<>>]
                 /\ UNCHANGED <<mem, mem8, mappings>>
            ELSE IF ~mmapOk
                 THEN \* line 49-58: mem8 takes Mmap's nil result
                      /\ mem8' = "nil"
                      /\ mappings' = mappings
                      /\ ret' = [op |-> "Open", err |-> ErrIO, sys |-> <<>>]
                      /\ UNCHANGED mem
                 ELSE \* line 60-67
                      /\ mem8' = "mapped"
                      /\ mappings' = mappings + 1
                      /\ mem' = [len |-> memLength \div 4]
                      /\ ret' = [op |-> "Open", err |-> NoErr, sys |-> <<>>]
    /\ UNCHANGED <<memlock, defaultWatcher, newPin>>
    /\ UNCHANGED <<kernelAndHistory, watcherFields, pvars>>

\* mem.go Close, line 75-76: the word view is emptied and the mapping removed;
\* Munmap of a slice that is not a live mapping reports EINVAL.
Unmap ==
    /\ mem' = [len |-> 0]
    /\ mem8' = IF mem8 = "mapped" THEN "unmapped" ELSE mem8
    /\ mappings' = IF mem8 = "mapped" THEN mappings - 1 ELSE mappings
    /\ ret' = [op |-> "Close", err |-> IF mem8 = "mapped" THEN NoErr ELSE EINVAL,
               sys |-> ret.sys]

\* mem.go Close, line 71-77, with closeInterrupts, line 407-414. Without a default
\* Watcher the call runs through; with one it tears the Watcher down and waits
\* for its loop while it holds memlock.
Close ==
    /\ memlock = 0
    /\ IF defaultWatcher = "nil"
       THEN /\ Unmap
            /\ UNCHANGED <<memlock, defaultWatcher, newPin>>
            /\ UNCHANGED <<kernelAndHistory, watcherFields, pvars>>
       ELSE /\ \E c \in Callers : CloseLockedW(c) /\ memlock' = c
            /\ defaultWatcher' = "nil"
            /\ UNCHANGED <<mem, mem8, mappings, newPin>>
            /\ UNCHANGED pvars

\* Close that unmaps without waiting for watcher.Close() to return.
CloseUnmapEarly ==
    /\ memlock \in Callers
    /\ Unmap
    /\ memlock' = 0
    /\ UNCHANGED <<defaultWatcher, newPin>>
    /\ UNCHANGED <<kernelAndHistory, watcherFields, pvars>>

\* mem.go Close, line 75-77, once watcher.Close() has returned.
CloseUnmap ==
    /\ memlock \in Callers
    /\ cpc[memlock] \in {"returned", "returnedEarly"}
    /\ Unmap
    /\ memlock' = 0
    /\ UNCHANGED <<defaultWatcher, newPin>>
    /\ UNCHANGED <<kernelAndHistory, watcherFields, pvars>>

\* getDefaultWatcher, line 340-347, with NewWatcher, line 351-373.
getDefaultWatcher ==
    /\ memlock = 0
    /\ IF defaultWatcher = "nil"
       THEN /\ wpc \in {"none", "exited"}
            /\ defaultWatcher' = "live"
            /\ interruptFds' = EmptyMap
            /\ interrupts' = EmptyMap
            /\ closed' = FALSE
            /\ doneCh' = "open"
            /\ wpc' = "wait"
            /\ batch' = <<>>
            /\ epfdOpen' = TRUE
            /\ epReg' = {}
            /\ rdllist' = <<>>
       ELSE UNCHANGED <<defaultWatcher, watcherFields>>
    /\ UNCHANGED <<memlock, mem, mem8, mappings, newPin, ret>>
    /\ UNCHANGED <<kernelAndHistory, pvars>>

\* Pin.Watch, line 505-508, after getDefaultWatcher has returned the Watcher.
Watch(pin, edge, handler, fault) ==
    /\ wpc # "none"
    /\ RegisterPin(pin, edge, handler, fault)

\* Pin.Unwatch, line 511-514: getDefaultWatcher, which makes a Watcher and
\* starts its loop when there is none, then UnregisterPin on that Watcher.
Unwatch(pin) ==
    /\ memlock = 0
    /\ IF defaultWatcher = "nil"
       THEN \* line 342-344 and NewWatcher; the new Watcher has no entry for
            \* the line, UnregisterPin returns at line 485-487
            /\ wpc \in {"none", "exited"}
            /\ defaultWatcher' = "live"
            /\ interruptFds' = EmptyMap
            /\ interrupts' = EmptyMap
            /\ closed' = FALSE
            /\ doneCh' = "open"
            /\ wpc' = "wait"
            /\ batch' = <<>>
            /\ epfdOpen' = TRUE
            /\ epReg' = {}
            /\ rdllist' = <<>>
            /\ UnregReturn(<<>>)
            /\ UNCHANGED <<memlock, mem, mem8, mappings, newPin>>
            /\ UNCHANGED <<kernelAndHistory, pvars>>
       ELSE UnregisterPin(pin)

\* ------------------------------------------------------------ Pin
\* The parts of the state a call on a Pin leaves alone.
memFields == <<memlock, mem, mem8, mappings, defaultWatcher, newPin>>

\* p := NewPin(pin): the caller keeps the result in its variable o. A variable
\* is assigned once.
Construct(o, pin) ==
    /\ pinObj[o] = NoPin
    /\ NewPinCall(pin)
    /\ pinObj' = IF newPin'.res = "pin" THEN [pinObj EXCEPT ![o] = newPin'.p] ELSE pinObj
    /\ toggled' = IF newPin'.res = "pin"
                  THEN [toggled EXCEPT ![o] = [base |-> newPin'.p.shadow, n |-> 0]]
                  ELSE toggled
    /\ UNCHANGED <<gpfsel, gpout, looped, pinRet, rvars>>

\* Shadow, line 506-508
Shadow(o) == pinObj[o].shadow

\* A call on a Pin indexes the emptied word view: the runtime panics.
PinPanic(op, o) ==
    /\ pinRet' = [op |-> op, obj |-> o, panic |-> TRUE, level |-> Low, mode |-> Input]
    /\ UNCHANGED <<gpfsel, gpout, pinObj, toggled>>

\* Read that returns the level without keeping it as the shadow.
ReadKeepsShadow(o) ==
    /\ pinObj[o] # NoPin
    /\ IF mem.len = 0
       THEN PinPanic("Read", o)
       ELSE LET p == pinObj[o]
                lv == IF BitAnd(LevelWord(p.levelReg - 13), p.mask) # 0 THEN High ELSE Low
            IN /\ pinObj' = pinObj
               /\ pinRet' = [op |-> "Read", obj |-> o, panic |-> FALSE, level |-> lv,
                             mode |-> Input]
               /\ toggled' = [toggled EXCEPT ![o] = [base |-> lv, n |-> 0]]
               /\ UNCHANGED <<gpfsel, gpout>>
    /\ UNCHANGED <<looped, rvars>>
    /\ UNCHANGED <<wvars, memFields>>

\* Read, line 536-542
Read(o) ==
    /\ pinObj[o] # NoPin
    /\ IF mem.len = 0
       THEN PinPanic("Read", o)
       ELSE LET p == pinObj[o]
                lv == IF BitAnd(LevelWord(p.levelReg - 13), p.mask) # 0 THEN High ELSE Low
            IN /\ pinObj' = [pinObj EXCEPT ![o].shadow = lv]
               /\ pinRet' = [op |-> "Read", obj |-> o, panic |-> FALSE, level |-> lv,
                             mode |-> Input]
               /\ toggled' = [toggled EXCEPT ![o] = [base |-> lv, n |-> 0]]
               /\ UNCHANGED <<gpfsel, gpout>>
    /\ UNCHANGED <<looped, rvars>>
    /\ UNCHANGED <<wvars, memFields>>

\* The store of Write to a register that keeps the word stored, as ordinary
\* memory does: the bits of the other lines of the bank are overwritten.
StoreOverwrites(o, lv) ==
    LET p == pinObj[o] IN
    /\ gpout' = IF lv = Low
                THEN {l \in gpout : l \div 32 # p.bank}
                ELSE {l \in gpout : l \div 32 # p.bank} \cup MaskLines(p.setReg - 7, p.mask)
    /\ pinObj' = [pinObj EXCEPT ![o].shadow = lv]
    /\ UNCHANGED gpfsel

\* Write, line 545-552: the store to the clear or the set register and the new
\* shadow.
Store(o, lv) ==
    LET p == pinObj[o] IN
    /\ gpout' = IF lv = Low
                THEN gpout \ MaskLines(p.clearReg - 10, p.mask)
                ELSE gpout \cup MaskLines(p.setReg - 7, p.mask)
    /\ pinObj' = [pinObj EXCEPT ![o].shadow = lv]
    /\ UNCHANGED gpfsel

\* Write that stores the mask to the set register whatever the level.
WriteSetOnly(o, lv) ==
    /\ pinObj[o] # NoPin
    /\ IF mem.len = 0
       THEN PinPanic("Write", o)
       ELSE /\ gpout' = gpout \cup MaskLines(pinObj[o].setReg - 7, pinObj[o].mask)
            /\ pinObj' = [pinObj EXCEPT ![o].shadow = lv]
            /\ UNCHANGED gpfsel
            /\ pinRet' = [op |-> "Write", obj |-> o, panic |-> FALSE, level |-> lv,
                          mode |-> Input]
            /\ toggled' = [toggled EXCEPT ![o] = [base |-> lv, n |-> 0]]
    /\ UNCHANGED <<looped, rvars>>
    /\ UNCHANGED <<wvars, memFields>>

\* Write, line 545-552
Write(o, lv) ==
    /\ pinObj[o] # NoPin
    /\ IF mem.len = 0
       THEN PinPanic("Write", o)
       ELSE /\ Store(o, lv)
            /\ pinRet' = [op |-> "Write", obj |-> o, panic |-> FALSE, level |-> lv,
                          mode |-> Input]
            /\ toggled' = [toggled EXCEPT ![o] = [base |-> lv, n |-> 0]]
    /\ UNCHANGED <<looped, rvars>>
    /\ UNCHANGED <<wvars, memFields>>

\* High and Low, line 489-496
PinHigh(o) == Write(o, High)
PinLow(o) == Write(o, Low)

\* Toggle that writes the complement of a fresh read of the level register.
ToggleFresh(o) ==
    /\ pinObj[o] # NoPin
    /\ toggled[o].n < MaxToggles
    /\ IF mem.len = 0
       THEN PinPanic("Toggle", o)
       ELSE LET p == pinObj[o]
                cur == BitAnd(LevelWord(p.levelReg - 13), p.mask) # 0
            IN /\ Store(o, IF cur THEN Low ELSE High)
               /\ pinRet' = [op |-> "Toggle", obj |-> o, panic |-> FALSE,
                             level |-> pinObj'[o].shadow, mode |-> Input]
               /\ toggled' = [toggled EXCEPT ![o].n = @ + 1]
    /\ UNCHANGED <<looped, rvars>>
    /\ UNCHANGED <<wvars, memFields>>

\* Toggle, line 516-522
Toggle(o) ==
    /\ pinObj[o] # NoPin
    /\ toggled[o].n < MaxToggles
    /\ IF mem.len = 0
       THEN PinPanic("Toggle", o)
       ELSE /\ Store(o, IF pinObj[o].shadow THEN Low ELSE High)
            /\ pinRet' = [op |-> "Toggle", obj |-> o, panic |-> FALSE,
                          level |-> pinObj'[o].shadow, mode |-> Input]
            /\ toggled' = [toggled EXCEPT ![o].n = @ + 1]
    /\ UNCHANGED <<looped, rvars>>
    /\ UNCHANGED <<wvars, memFields>>

\* SetMode, line 532: the new function select word.
SetField(word, modeShift, mode) ==
    BitOr(AndNot(word, Shl(modeMask, modeShift)), Shl(mode, modeShift))

\* SetMode that does not clear the field before it stores the mode.
SetModeNoClear(o, mode) ==
    /\ pinObj[o] # NoPin
    /\ memlock = 0
    /\ IF mem.len = 0
       THEN PinPanic("SetMode", o)
       ELSE /\ gpfsel' = [gpfsel EXCEPT ![pinObj[o].fsel] =
                            BitOr(@, Shl(mode, ModeShift(pinObj[o].pin)))]
            /\ pinRet' = [op |-> "SetMode", obj |-> o, panic |-> FALSE, level |-> Low,
                          mode |-> mode]
            /\ UNCHANGED <<gpout, pinObj, toggled>>
    /\ UNCHANGED <<looped, rvars>>
    /\ UNCHANGED <<wvars, memFields>>

\* SetMode, line 525-533: the read-modify-write runs under memlock.
SetMode(o, mode) ==
    /\ pinObj[o] # NoPin
    /\ memlock = 0
    /\ IF mem.len = 0
       THEN PinPanic("SetMode", o)
       ELSE /\ gpfsel' = [gpfsel EXCEPT ![pinObj[o].fsel] =
                            SetField(@, ModeShift(pinObj[o].pin), mode)]
            /\ pinRet' = [op |-> "SetMode", obj |-> o, panic |-> FALSE, level |-> Low,
                          mode |-> mode]
            /\ UNCHANGED <<gpout, pinObj, toggled>>
    /\ UNCHANGED <<looped, rvars>>
    /\ UNCHANGED <<wvars, memFields>>

\* Input and Output, line 479-486
PinInput(o) == SetMode(o, Input)
PinOutput(o) == SetMode(o, Output)

\* Mode, line 499-503
Mode(o) ==
    /\ pinObj[o] # NoPin
    /\ IF mem.len = 0
       THEN PinPanic("Mode", o)
       ELSE /\ pinRet' = [op |-> "Mode", obj |-> o, panic |-> FALSE, level |-> Low,
                          mode |-> ModeField(gpfsel[pinObj[o].fsel],
                                             ModeShift(pinObj[o].pin))]
            /\ UNCHANGED <<gpfsel, gpout, pinObj, toggled>>
    /\ UNCHANGED <<looped, rvars>>
    /\ UNCHANGED <<wvars, memFields>>

\* A goroutine started by `go irq.handler(irq.pin)` runs a handler that calls
\* Read on the Pin it is given (interrupt.go line 401, dio.go line 536-542);
\* o is the caller's variable that holds that Pin.
HandlerReads(r, o) ==
    /\ goroutines[r] > 0
    /\ pinObj[o] # NoPin
    /\ pinObj[o].pin = regs[r].pin
    /\ goroutines' = [goroutines EXCEPT ![r] = @ - 1]
    /\ regs' = [regs EXCEPT ![r].fired = @ + 1]
    /\ firedAfterClose' = (firedAfterClose \/ \E c \in Callers : cpc[c] = "returned")
    /\ IF mem.len = 0
       THEN PinPanic("Read", o)
       ELSE LET p == pinObj[o]
                lv == IF BitAnd(LevelWord(p.levelReg - 13), p.mask) # 0 THEN High ELSE Low
            IN /\ pinObj' = [pinObj EXCEPT ![o].shadow = lv]
               /\ pinRet' = [op |-> "Read", obj |-> o, panic |-> FALSE, level |-> lv,
                             mode |-> Input]
               /\ toggled' = [toggled EXCEPT ![o] = [base |-> lv, n |-> 0]]
               /\ UNCHANGED <<gpfsel, gpout>>
    /\ UNCHANGED <<interruptFds, interrupts, closed, doneCh, wpc, batch, cpc, exported,
                   edgeCfg, level, openFds, epfdOpen, epReg, rdllist, ret, drives>>
    /\ UNCHANGED <<looped, rvars>>
    /\ UNCHANGED memFields

\* ------------------------------------------------------------ the Watcher
MemInit ==
    /\ memlock = 0
    /\ mem = [len |-> 0]
    /\ mem8 = "nil"
    /\ mappings = 0
    /\ defaultWatcher = "nil"
    /\ newPin = [arg |-> 0, res |-> "none", p |-> NoPin]

\* ------------------------------------------------------------ pull control
\* The chips SetPull tells apart, line 558-563.
BCM2835 == "BCM2835"
BCM2711 == "BCM2711"
Chips == {BCM2835, BCM2711}

\* dio.go, line 335-337 and 390-394
pullMask == 3
pullReg2835 == 37
PullNone == 0
PullDown == 1
PullUp == 2
Pulls == {PullNone, PullDown, PullUp}

Threads == 1..MaxThreads
ThreadIdle == [pc |-> "idle", op |-> "none", o |-> 0, arg |-> 0, tmp |-> 0, log |-> <<>>]

\* No pull selected or latched, no thread inside a call.
RegsInit(chips) ==
    /\ chipset \in chips
    /\ gppud = {}
    /\ gpclk = [b \in 0..1 |-> {}]
    /\ gppull = [r \in 57..60 |-> {}]
    /\ pulls = [l \in SupportedLines |-> PullNone]
    /\ tpc = [t \in Threads |-> ThreadIdle]

\* ---- 32-bit words as the sets of their bits that are 1
BitsOf(x) == {b \in 0..30 : (x \div 2 ^ b) % 2 = 1}
ShlBits(S, n) == {b + n : b \in S} \cap 0..31
\* The two-bit field of a word at a shift.
Field2(S, shift) == (IF shift \in S THEN 1 ELSE 0) + (IF shift + 1 \in S THEN 2 ELSE 0)
\* word &^ (pullMask << shift) | value << shift
SetField2(S, shift, value) ==
    (S \ ShlBits(BitsOf(pullMask), shift)) \cup ShlBits(BitsOf(value), shift)

\* ---- threads: a call of SetMode or SetPull as the steps it takes
\* What a thread holds memlock as.
LockOf(t) == MaxCallers + t
\* The deferred memlock.Unlock() of the thread.
Unlocked(t) == IF memlock = LockOf(t) THEN 0 ELSE memlock
\* The thread's call is over.
Returned(t) == ThreadIdle
\* The parts of the state the steps of SetMode and SetPull leave alone.
memRest == <<mem, mem8, mappings, defaultWatcher, newPin>>
pinRest == <<gpout, looped, pinObj, toggled, chipset>>

\* An index into the emptied word view inside a call that holds memlock: the
\* runtime panics and the deferred Unlock runs.
ThreadPanic(t) ==
    /\ pinRet' = [op |-> tpc[t].op, obj |-> tpc[t].o, panic |-> TRUE, level |-> Low,
                  mode |-> Input]
    /\ tpc' = [tpc EXCEPT ![t] = Returned(t)]
    /\ memlock' = Unlocked(t)
    /\ UNCHANGED <<gpfsel, gppud, gpclk, gppull, pulls>>

\* memlock.Lock() that does not wait for the lock.
LockFree(t, op, o, arg) ==
    /\ tpc[t].pc = "idle"
    /\ pinObj[o] # NoPin
    /\ memlock' = LockOf(t)
    /\ tpc' = [tpc EXCEPT ![t] = [pc |-> "locked", op |-> op, o |-> o, arg |-> arg,
                                   tmp |-> 0, log |-> <<>>]]
    /\ UNCHANGED <<gpfsel, gppud, gpclk, gppull, pulls, pinRet>>
    /\ UNCHANGED <<wvars, memRest, pinRest>>

\* The call of a method that starts with memlock.Lock(), up to the point where
\* the thread holds the lock: SetMode line 526, setPull2835 line 568,
\* setPull2711 line 592.
Lock(t, op, o, arg) ==
    /\ tpc[t].pc = "idle"
    /\ pinObj[o] # NoPin
    /\ memlock = 0
    /\ memlock' = LockOf(t)
    /\ tpc' = [tpc EXCEPT ![t] = [pc |-> "locked", op |-> op, o |-> o, arg |-> arg,
                                   tmp |-> 0, log |-> <<>>]]
    /\ UNCHANGED <<gpfsel, gppud, gpclk, gppull, pulls, pinRet>>
    /\ UNCHANGED <<wvars, memRest, pinRest>>

\* SetMode, line 525-527
SetModeLock(t, o, mode) == Lock(t, "SetMode", o, mode)

\* SetMode, line 532: the read of mem[pin.fsel]
SetModeLoad(t) ==
    /\ tpc[t].pc = "locked"
    /\ tpc[t].op = "SetMode"
    /\ IF mem.len = 0
       THEN ThreadPanic(t)
       ELSE /\ tpc' = [tpc EXCEPT ![t].pc = "loaded",
                                  ![t].tmp = gpfsel[pinObj[tpc[t].o].fsel]]
            /\ UNCHANGED <<memlock, gpfsel, gppud, gpclk, gppull, pulls, pinRet>>
    /\ UNCHANGED <<wvars, memRest, pinRest>>

\* SetMode, line 532-533: the store to mem[pin.fsel] and the return
SetModeStore(t) ==
    LET p == pinObj[tpc[t].o] IN
    /\ tpc[t].pc = "loaded"
    /\ gpfsel' = [gpfsel EXCEPT ![p.fsel] = SetField(tpc[t].tmp, ModeShift(p.pin), tpc[t].arg)]
    /\ tpc' = [tpc EXCEPT ![t] = Returned(t)]
    /\ memlock' = Unlocked(t)
    /\ UNCHANGED <<gppud, gpclk, gppull, pulls, pinRet>>
    /\ UNCHANGED <<wvars, memRest, pinRest>>

\* SetPull that goes on without memlock.
SetPullLockFree(t, o, pull) == LockFree(t, "SetPull", o, pull)

\* SetPull, line 557-570 and 584-593
SetPullLock(t, o, pull) == Lock(t, "SetPull", o, pull)

\* The write of a clock-latch register: the pad control of each line whose bit
\* goes from 0 to 1 takes the selector register 37 holds.
Latch(bank, word) ==
    [l \in SupportedLines |->
        IF l \div 32 = bank /\ (l % 32) \in word /\ (l % 32) \notin gpclk[bank]
        THEN Field2(gppud, 0)
        ELSE pulls[l]]

\* setPull2835, line 571: the selector goes into register 37
SetPullSel(t) ==
    /\ tpc[t].pc = "locked"
    /\ tpc[t].op = "SetPull"
    /\ chipset # BCM2711
    /\ IF mem.len = 0
       THEN ThreadPanic(t)
       ELSE /\ gppud' = SetField2(gppud, 0, tpc[t].arg)
            /\ tpc' = [tpc EXCEPT ![t].pc = "sel",
                                  ![t].log = Append(@, <<pullReg2835, gppud'>>)]
            /\ UNCHANGED <<memlock, gpfsel, gpclk, gppull, pulls, pinRet>>
    /\ UNCHANGED <<wvars, memRest, pinRest>>

\* setPull2835 that pulses the clock-latch bits of the whole bank.
SetPullClkBank(t) ==
    LET p == pinObj[tpc[t].o]
        clkReg == p.bank + 38
    IN
    /\ tpc[t].pc = "sel"
    /\ gpclk' = [gpclk EXCEPT ![p.bank] = 0..31]
    /\ pulls' = Latch(p.bank, 0..31)
    /\ tpc' = [tpc EXCEPT ![t].pc = "clk",
                          ![t].log = Append(@, <<clkReg, 0..31>>)]
    /\ UNCHANGED <<memlock, gpfsel, gppud, gppull, pinRet>>
    /\ UNCHANGED <<wvars, memRest, pinRest>>

\* setPull2835, line 572-575: after the sleep the line's mask goes into the
\* clock-latch register of its bank
SetPullClk(t) ==
    LET p == pinObj[tpc[t].o]
        clkReg == p.bank + 38
    IN
    /\ tpc[t].pc = "sel"
    /\ gpclk' = [gpclk EXCEPT ![p.bank] = BitsOf(p.mask)]
    /\ pulls' = Latch(p.bank, BitsOf(p.mask))
    /\ tpc' = [tpc EXCEPT ![t].pc = "clk",
                          ![t].log = Append(@, <<clkReg, BitsOf(p.mask)>>)]
    /\ UNCHANGED <<memlock, gpfsel, gppud, gppull, pinRet>>
    /\ UNCHANGED <<wvars, memRest, pinRest>>

\* setPull2835, line 576-578: after the sleep the selector is cleared
SetPullSelClr(t) ==
    /\ tpc[t].pc = "clk"
    /\ gppud' = gppud \ BitsOf(pullMask)
    /\ tpc' = [tpc EXCEPT ![t].pc = "selclr",
                          ![t].log = Append(@, <<pullReg2835, gppud'>>)]
    /\ UNCHANGED <<memlock, gpfsel, gpclk, gppull, pulls, pinRet>>
    /\ UNCHANGED <<wvars, memRest, pinRest>>

\* setPull2835, line 579-581: the clock-latch register is cleared; return
SetPullClkClr(t) ==
    LET p == pinObj[tpc[t].o] IN
    /\ tpc[t].pc = "selclr"
    /\ gpclk' = [gpclk EXCEPT ![p.bank] = {}]
    /\ tpc' = [tpc EXCEPT ![t] = Returned(t)]
    /\ memlock' = Unlocked(t)
    /\ UNCHANGED <<gpfsel, gppud, gppull, pulls, pinRet>>
    /\ UNCHANGED <<wvars, memRest, pinRest>>

\* setPull2711 that stores the selector as SetPull received it.
Swap2711Not(pull) == pull

\* setPull2711, line 584-590: the chip reverses the sense of up and down
Swap2711(pull) ==
    IF pull = PullUp THEN PullDown
    ELSE IF pull = PullDown THEN PullUp
    ELSE pull

\* setPull2711, line 591-595: the read-modify-write of the line's pull register
\* under memlock, and the return
SetPull2711(t) ==
    LET p == pinObj[tpc[t].o]
        shift == (p.pin % 16) * 2
    IN
    /\ tpc[t].pc = "locked"
    /\ tpc[t].op = "SetPull"
    /\ chipset = BCM2711
    /\ IF mem.len = 0
       THEN ThreadPanic(t)
       ELSE /\ gppull' = [gppull EXCEPT ![p.pullReg2711] =
                            SetField2(@, shift, Swap2711(tpc[t].arg))]
            /\ tpc' = [tpc EXCEPT ![t] = Returned(t)]
            /\ memlock' = Unlocked(t)
            /\ UNCHANGED <<gpfsel, gppud, gpclk, pulls, pinRet>>
    /\ UNCHANGED <<wvars, memRest, pinRest>>

\* The GPIO block after reset: every line an input with its output latch low;
\* no Pin constructed.
PinIdle == [op |-> "none", obj |-> 0, panic |-> FALSE, level |-> Low, mode |-> Input]
PinInit ==
    /\ gpfsel = [r \in 0..5 |-> 0]
    /\ gpout = {}
    /\ looped = FALSE
    /\ RegsInit({BCM2835})
    /\ pinObj = [o \in 1..MaxPins |-> NoPin]
    /\ pinRet = PinIdle
    /\ toggled = [o \in 1..MaxPins |-> [base |-> Low, n |-> 0]]

\* NewWatcher, line 351-373
WatcherInit ==
    /\ interruptFds = EmptyMap
    /\ interrupts = EmptyMap
    /\ closed = FALSE
    /\ doneCh = "open"
    /\ wpc = "wait"
    /\ batch = <<>>
    /\ goroutines = [r \in 1..MaxRegs |-> 0]
    /\ cpc = [c \in Callers |-> "idle"]
    /\ exported = {}
    /\ edgeCfg = [l \in Lines |-> EdgeNone]
    /\ openFds = <<>>
    /\ epfdOpen = TRUE
    /\ epReg = {}
    /\ rdllist = <<>>
    /\ ret = [op |-> "none", err |-> NoErr, sys |-> <<>>]
    /\ regs = <<>>
    /\ drives = 0
    /\ firedAfterClose = FALSE

\* A new Watcher; the lines in `high` may be high or low at the start, the
\* others are low.
InitOver(high) ==
    /\ WatcherInit
    /\ level \in {f \in [Lines -> BOOLEAN] : \A l \in Lines \ high : f[l] = FALSE}
    /\ MemInit
    /\ PinInit

\* The steps of the Watcher's threads and of the kernel, with the callers'
\* inputs drawn from the given sets.
NextOver(pins, edges, handlers, faults, callers) ==
    \/ \E pin \in pins, edge \in edges, handler \in handlers, fault \in faults :
          RegisterPin(pin, edge, handler, fault)
    \/ \E pin \in pins : UnregisterPin(pin)
    \/ \E c \in callers : CloseLocked(c)
    \/ \E c \in callers : CloseWait(c)
    \/ EpollWait
    \/ WatchShutdown
    \/ WatchDispatch
    \/ \E r \in 1..MaxRegs : HandlerRun(r)
    \/ \E pin \in pins : Drive(pin)
    \/ \E fd \in Fds : Finalize(fd)

\* Two lines, one handler, every transition an interrupt: registration,
\* unregistration and teardown of several lines.
Init == InitOver({})
Next == NextOver(Lines, {EdgeBoth}, {1}, {"none"}, {1})
Spec == Init /\ [][Next]_vars

\* One line, two handlers: a second registration of a registered line.
InitBusy == InitOver({1})
NextBusy == NextOver({1}, {EdgeBoth}, Handlers, {"none"}, {1})
SpecBusy == InitBusy /\ [][NextBusy]_vars

\* One line, one handler, several threads calling Close.
InitClose == InitOver({1})
NextClose == NextOver({1}, {EdgeBoth}, {1}, {"none"}, Callers)
SpecClose == InitClose /\ [][NextClose]_vars

\* The register map with the default Watcher: no Watcher exists at the start.
InitMem ==
    /\ interruptFds = NilMap
    /\ interrupts = NilMap
    /\ closed = FALSE
    /\ doneCh = "open"
    /\ wpc = "none"
    /\ batch = <<>>
    /\ goroutines = [r \in 1..MaxRegs |-> 0]
    /\ cpc = [c \in Callers |-> "idle"]
    /\ exported = {}
    /\ edgeCfg = [l \in Lines |-> EdgeNone]
    /\ level \in {f \in [Lines -> BOOLEAN] : \A l \in Lines \ {1} : f[l] = FALSE}
    /\ openFds = <<>>
    /\ epfdOpen = FALSE
    /\ epReg = {}
    /\ rdllist = <<>>
    /\ ret = [op |-> "none", err |-> NoErr, sys |-> <<>>]
    /\ regs = <<>>
    /\ drives = 0
    /\ firedAfterClose = FALSE
    /\ MemInit
    /\ PinInit
NextMem ==
    \/ \E devOk \in BOOLEAN, mmapOk \in BOOLEAN : Open(devOk, mmapOk)
    \/ Close
    \/ CloseUnmap
    \/ \E pin \in PinArgs : NewPin(pin)
    \/ getDefaultWatcher
    \/ Watch(1, EdgeBoth, 1, "none")
    \/ \E c \in Callers : CloseWait(c)
    \/ EpollWait
    \/ WatchShutdown
    \/ WatchDispatch
SpecMem == InitMem /\ [][NextMem]_vars

\* The default Watcher under Watch and Unwatch of one line and gpio.Close.
InitWatch == InitMem
NextWatch ==
    \/ Close
    \/ CloseUnmap
    \/ getDefaultWatcher
    \/ Watch(1, EdgeBoth, 1, "none")
    \/ Unwatch(1)
    \/ \E c \in Callers : CloseWait(c)
    \/ EpollWait
    \/ WatchShutdown
    \/ WatchDispatch
    \/ \E r \in 1..MaxRegs : HandlerRun(r)
SpecWatch == InitWatch /\ [][NextWatch]_vars

\* A watch on line 1 whose handler reads the line through the Pin, the register
\* map being opened and closed meanwhile; Watch is called while the map is open.
InitHandler == InitMem
NextHandler ==
    \/ Open(TRUE, TRUE)
    \/ Construct(1, 1)
    \/ Close
    \/ CloseUnmap
    \/ getDefaultWatcher
    \/ mem.len # 0 /\ Watch(1, EdgeBoth, 1, "none")
    \/ \E c \in Callers : CloseWait(c)
    \/ EpollWait
    \/ WatchShutdown
    \/ WatchDispatch
    \/ \E r \in 1..MaxRegs : HandlerReads(r, 1)
SpecHandler == InitHandler /\ [][NextHandler]_vars

\* gpio.Close next to the watch loop, to Watch and Unwatch calls and to
\* handlers: a handler goroutine runs and returns (HandlerRun) or never gets
\* that far, and threads, handler goroutines among them, call SetMode, which
\* needs memlock. The scheduler is fair to the watch loop, to the thread inside
\* Close and to a thread that holds memlock inside SetMode; nothing is assumed of
\* the handlers.
InitShut == InitMem
NextShut ==
    \/ Open(TRUE, TRUE)
    \/ Construct(1, 1)
    \/ Close
    \/ CloseUnmap
    \/ \E c \in Callers : CloseWait(c)
    \/ getDefaultWatcher
    \/ Watch(1, EdgeBoth, 1, "none")
    \/ Unwatch(1)
    \/ EpollWait
    \/ WatchShutdown
    \/ WatchDispatch
    \/ \E r \in 1..MaxRegs : HandlerRun(r)
    \/ \E t \in Threads : SetModeLock(t, 1, Output)
    \/ \E t \in Threads : SetModeLoad(t)
    \/ \E t \in Threads : SetModeStore(t)
FairShut ==
    /\ WF_vars(EpollWait)
    /\ WF_vars(WatchShutdown)
    /\ WF_vars(WatchDispatch)
    /\ WF_vars(\E c \in Callers : CloseWait(c))
    /\ WF_vars(CloseUnmap)
    /\ WF_vars(\E t \in Threads : SetModeLoad(t))
    /\ WF_vars(\E t \in Threads : SetModeStore(t))
SpecShut == InitShut /\ [][NextShut]_vars /\ FairShut

\* The calls on Pin objects over an open or closed register map; no Watcher
\* exists. Line 1 is held high from outside, the other lines are low.
InitChipOver(loops, chips) ==
    /\ interruptFds = NilMap
    /\ interrupts = NilMap
    /\ closed = FALSE
    /\ doneCh = "open"
    /\ wpc = "none"
    /\ batch = <<>>
    /\ goroutines = [r \in 1..MaxRegs |-> 0]
    /\ cpc = [c \in Callers |-> "idle"]
    /\ exported = {}
    /\ edgeCfg = [l \in Lines |-> EdgeNone]
    /\ level = [l \in Lines |-> l = 1]
    /\ openFds = <<>>
    /\ epfdOpen = FALSE
    /\ epReg = {}
    /\ rdllist = <<>>
    /\ ret = [op |-> "none", err |-> NoErr, sys |-> <<>>]
    /\ regs = <<>>
    /\ drives = 0
    /\ firedAfterClose = FALSE
    /\ MemInit
    /\ gpfsel = [r \in 0..5 |-> 0]
    /\ gpout = {}
    /\ looped \in loops
    /\ RegsInit(chips)
    /\ pinObj = [o \in 1..MaxPins |-> NoPin]
    /\ pinRet = PinIdle
    /\ toggled = [o \in 1..MaxPins |-> [base |-> Low, n |-> 0]]
InitPinOver(loops) == InitChipOver(loops, {BCM2835})
NextPinOver(objs, pins, modes) ==
    \/ Open(TRUE, TRUE)
    \/ Close
    \/ \E o \in objs, pin \in pins : Construct(o, pin)
    \/ \E o \in objs : Read(o)
    \/ \E o \in objs, lv \in {Low, High} : Write(o, lv)
    \/ \E o \in objs : PinHigh(o)
    \/ \E o \in objs : PinLow(o)
    \/ \E o \in objs : Toggle(o)
    \/ \E o \in objs, mode \in modes : SetMode(o, mode)
    \/ \E o \in objs : PinInput(o)
    \/ \E o \in objs : PinOutput(o)
    \/ \E o \in objs : Mode(o)

\* One Pin on any supported line, every mode.
InitPin == InitPinOver({FALSE})
NextPin == NextPinOver({1}, SupportedLines, Modes)
SpecPin == InitPin /\ [][NextPin]_vars

\* Two Pins constructed on any line numbers, line levels changing meanwhile.
InitNew == InitPinOver({FALSE})
NextNew ==
    \/ Open(TRUE, TRUE)
    \/ Close
    \/ \E o \in 1..MaxPins, pin \in PinArgs : Construct(o, pin)
    \/ \E pin \in Lines : Drive(pin)
SpecNew == InitNew /\ [][NextNew]_vars

\* Two Pins on lines 1 and 2, which a jumper may join.
InitLoop == InitPinOver(BOOLEAN)
NextLoop ==
    \/ Open(TRUE, TRUE)
    \/ \E o \in 1..MaxPins, pin \in {1, 2} : Construct(o, pin)
    \/ \E o \in 1..MaxPins : Read(o)
    \/ \E o \in 1..MaxPins, lv \in {Low, High} : Write(o, lv)
    \/ \E o \in 1..MaxPins, mode \in {Input, Output} : SetMode(o, mode)
    \/ Drive(1)
SpecLoop == InitLoop /\ [][NextLoop]_vars

\* One line, one handler, every answer of the operating system to RegisterPin.
\* Two Pins on line 1 or 2, also both on one line, every call that reads or
\* writes the level, and the level of line 1 changing from outside.
InitShadow == InitPinOver({FALSE})
NextShadow ==
    \/ Open(TRUE, TRUE)
    \/ \E o \in 1..MaxPins, pin \in {1, 2} : Construct(o, pin)
    \/ \E o \in 1..MaxPins : Read(o)
    \/ \E o \in 1..MaxPins, lv \in {Low, High} : Write(o, lv)
    \/ \E o \in 1..MaxPins : PinHigh(o)
    \/ \E o \in 1..MaxPins : PinLow(o)
    \/ \E o \in 1..MaxPins : Toggle(o)
    \/ \E o \in 1..MaxPins, mode \in {Input, Output} : SetMode(o, mode)
    \/ Drive(1)
SpecShadow == InitShadow /\ [][NextShadow]_vars

\* A Pin that is only constructed and toggled, next to a second Pin that reads
\* and writes, on lines 1 and 2, while line 1 is driven from outside.
FirstPin == 1
InitFirst == InitPinOver({FALSE})
NextFirst ==
    \/ Open(TRUE, TRUE)
    \/ \E o \in 1..MaxPins, pin \in {1, 2} : Construct(o, pin)
    \/ Toggle(FirstPin)
    \/ \E o \in (1..MaxPins) \ {FirstPin} : Read(o)
    \/ \E o \in (1..MaxPins) \ {FirstPin}, lv \in {Low, High} : Write(o, lv)
    \/ \E o \in 1..MaxPins, mode \in {Input, Output} : SetMode(o, mode)
    \/ Drive(1)
SpecFirst == InitFirst /\ [][NextFirst]_vars

\* Threads in SetMode on two Pins of lines that share a function select
\* register and a bank, while the lines are written.
ModeLines == {15, 17}
RegModes == {Input, Output, Alt3}
InitMode == InitChipOver({FALSE}, {BCM2835})
NextMode ==
    \/ Open(TRUE, TRUE)
    \/ \E o \in 1..MaxPins, pin \in ModeLines : Construct(o, pin)
    \/ \E t \in Threads, o \in 1..MaxPins, mode \in RegModes : SetModeLock(t, o, mode)
    \/ \E t \in Threads : SetModeLoad(t)
    \/ \E t \in Threads : SetModeStore(t)
    \/ \E o \in 1..MaxPins, lv \in {Low, High} : Write(o, lv)
SpecMode == InitMode /\ [][NextMode]_vars

\* Threads in SetPull and SetMode on two Pins, on either chip; of the lines
\* two share a BCM2711 pull register and all share a bank.
PullLines == {14, 15, 17}
\* ---- threads: a call of Open as the steps it takes
\* What a thread keeps of its call of Open once it has returned: the error.
OpenDone(err) == [pc |-> "done", op |-> "Open", o |-> 0, arg |-> 0, tmp |-> 0,
                  log |-> <<err>>]
OpenAt(pc) == [pc |-> pc, op |-> "Open", o |-> 0, arg |-> 0, tmp |-> 0, log |-> <<>>]
\* The parts of the state no step of Open touches.
openRest == <<wvars, defaultWatcher, newPin, pinRest, gpfsel, gppud, gpclk, gppull,
              pulls, pinRet>>

\* Open, line 32-43: the test of len(mem), made before memlock is taken, and
\* os.OpenFile. devOk: /dev/gpiomem can be opened.
OpenCheck(t, devOk) ==
    /\ tpc[t].pc = "idle"
    /\ tpc' = [tpc EXCEPT ![t] = IF mem.len # 0 THEN OpenDone(ErrAlreadyOpen)
                                 ELSE IF ~devOk THEN OpenDone(ErrIO)
                                 ELSE OpenAt("opened")]
    /\ UNCHANGED <<memlock, mem, mem8, mappings>>
    /\ UNCHANGED openRest

\* Open, line 45: memlock.Lock()
OpenLock(t) ==
    /\ tpc[t].pc = "opened"
    /\ memlock = 0
    /\ memlock' = LockOf(t)
    /\ tpc' = [tpc EXCEPT ![t] = OpenAt("locked")]
    /\ UNCHANGED <<mem, mem8, mappings>>
    /\ UNCHANGED openRest

\* Open, line 49-58: mem8, err = syscall.Mmap(...). mem8 takes the result
\* whatever it held; a mapping it held stays mapped. mmapOk: the device can be
\* mapped.
OpenMmap(t, mmapOk) ==
    /\ tpc[t].pc = "locked"
    /\ tpc[t].op = "Open"
    /\ IF ~mmapOk
       THEN /\ mem8' = "nil"
            /\ tpc' = [tpc EXCEPT ![t] = OpenDone(ErrIO)]
            /\ memlock' = Unlocked(t)
            /\ UNCHANGED mappings
       ELSE /\ mappings < MaxMappings
            /\ mem8' = "mapped"
            /\ mappings' = mappings + 1
            /\ tpc' = [tpc EXCEPT ![t] = OpenAt("mmapped")]
            /\ UNCHANGED memlock
    /\ UNCHANGED mem
    /\ UNCHANGED openRest

\* Open, line 60-67: the word view over the mapping, return nil and the
\* deferred Unlock.
OpenView(t) ==
    /\ tpc[t].pc = "mmapped"
    /\ mem' = [len |-> memLength \div 4]
    /\ tpc' = [tpc EXCEPT ![t] = OpenDone(NoErr)]
    /\ memlock' = Unlocked(t)
    /\ UNCHANGED <<mem8, mappings>>
    /\ UNCHANGED openRest

\* The caller has looked at what Open returned.
OpenForget(t) ==
    /\ tpc[t].pc = "done"
    /\ tpc' = [tpc EXCEPT ![t] = ThreadIdle]
    /\ UNCHANGED <<memlock, mem, mem8, mappings>>
    /\ UNCHANGED openRest

InitPull == InitChipOver({FALSE}, Chips)
NextPull ==
    \/ Open(TRUE, TRUE)
    \/ \E o \in 1..MaxPins, pin \in PullLines : Construct(o, pin)
    \/ \E t \in Threads, o \in 1..MaxPins : SetModeLock(t, o, Output)
    \/ \E t \in Threads : SetModeLoad(t)
    \/ \E t \in Threads : SetModeStore(t)
    \/ \E t \in Threads, o \in 1..MaxPins, pull \in Pulls : SetPullLock(t, o, pull)
    \/ \E t \in Threads : SetPullSel(t)
    \/ \E t \in Threads : SetPullClk(t)
    \/ \E t \in Threads : SetPullSelClr(t)
    \/ \E t \in Threads : SetPullClkClr(t)
    \/ \E t \in Threads : SetPull2711(t)
SpecPull == InitPull /\ [][NextPull]_vars

\* ---- threads that call Open at the same time; Close is called between the
\* calls of Open, when no thread is inside one or holds its result.
InitOpen == InitChipOver({FALSE}, {BCM2835})
NextOpen ==
    \/ \E t \in Threads, devOk \in BOOLEAN : OpenCheck(t, devOk)
    \/ \E t \in Threads : OpenLock(t)
    \/ \E t \in Threads, mmapOk \in BOOLEAN : OpenMmap(t, mmapOk)
    \/ \E t \in Threads : OpenView(t)
    \/ \E t \in Threads : OpenForget(t)
    \/ (\A t \in Threads : tpc[t].pc = "idle") /\ Close
SpecOpen == InitOpen /\ [][NextOpen]_vars

\* Two lines, no Close and no UnregisterPin; the handler of line BlockedLine
\* never returns. The watch goroutine is runnable whenever EpollWait has events
\* to return or the loop has events left, and the Go scheduler runs a runnable
\* goroutine; the handlers' goroutines get no such assumption.
BlockedLine == 1
\* The handler of a line other than BlockedLine runs and returns.
HandlerReturns(r) ==
    /\ r \in DOMAIN regs
    /\ regs[r].pin # BlockedLine
    /\ HandlerRun(r)
InitLive == InitOver({})
NextLive ==
    \/ \E pin \in Lines : RegisterPin(pin, EdgeBoth, 1, "none")
    \/ \E pin \in Lines : Drive(pin)
    \/ EpollWait
    \/ WatchDispatch
    \/ \E r \in 1..MaxRegs : HandlerReturns(r)
FairLive == WF_vars(EpollWait) /\ WF_vars(WatchDispatch)
SpecLive == InitLive /\ [][NextLive]_vars /\ FairLive

\* The Watcher stays open.
FaultPins == {1}
FaultEdges == {EdgeBoth}
FaultHandlers == {1}
InitFault == InitOver({1})
NextFault ==
    \/ \E pin \in FaultPins, edge \in FaultEdges, handler \in FaultHandlers,
          fault \in Faults : RegisterPin(pin, edge, handler, fault)
    \/ \E pin \in FaultPins : UnregisterPin(pin)
    \/ EpollWait
    \/ WatchDispatch
    \/ \E r \in 1..MaxRegs : HandlerRun(r)
    \/ \E pin \in FaultPins : Drive(pin)
    \/ \E fd \in Fds : Finalize(fd)
SpecFault == InitFault /\ [][NextFault]_vars

\* Two lines, registrations that succeed or fail after the export, after the
\* value file was opened, or not at all, unregistration and Close; the lines
\* do not move.
MapsFaults == {"none", "setEdge", "epollctl"}
InitMaps == InitOver({})
NextMaps ==
    \/ \E pin \in Lines, fault \in MapsFaults : RegisterPin(pin, EdgeBoth, 1, fault)
    \/ \E pin \in Lines : UnregisterPin(pin)
    \/ CloseLocked(1)
    \/ CloseWait(1)
    \/ EpollWait
    \/ WatchShutdown
    \/ WatchDispatch
    \/ \E r \in 1..MaxRegs : HandlerRun(r)
    \/ \E fd \in Fds : Finalize(fd)
SpecMaps == InitMaps /\ [][NextMaps]_vars

\* One line, one handler, every edge setting.
InitEdge == InitOver({1})
NextEdge == NextOver({1}, Edges, {1}, {"none"}, {1})
SpecEdge == InitEdge /\ [][NextEdge]_vars

\* ============================================================ properties

\* What decides which handler a wake of a line starts, and for whom.
dispatchState == <<interruptFds, interrupts, epReg, rdllist, batch, goroutines, regs>>

\* C1: RegisterPin on a line that has a registration returns ErrBusy, writes
\* neither export nor unexport, changes nothing of the Watcher's bookkeeping
\* or of the kernel's state; and the record stored for a line always carries
\* the handler its registration was made with, which is the one a wake starts.
C1_Step ==
    \A pin \in Lines, edge \in Edges, handler \in Handlers, fault \in Faults :
        (MapHas(interruptFds, pin) /\ RegisterPin(pin, edge, handler, fault)) =>
            /\ ret'.err = ErrBusy
            /\ ret'.sys = <<>>
            /\ UNCHANGED dispatchState
            /\ UNCHANGED <<exported, edgeCfg, openFds, closed>>
C1_Handler ==
    \A fd \in DOMAIN interrupts.tab :
        interrupts.tab[fd].handler = regs[interrupts.tab[fd].reg].handler
C1_BusyKeepsRegistration == [][C1_Step]_vars /\ []C1_Handler
\* A second RegisterPin was rejected and the first handler ran for a later wake.
C1_Witness ==
    /\ ret = [op |-> "RegisterPin", err |-> ErrBusy, sys |-> <<>>]
    /\ LiveReg(1) # 0
    /\ regs[LiveReg(1)].fired >= 2

\* C2: once a Close that waited for the watch loop has returned, no handler runs.
C2_NoHandlerAfterClose == ~firedAfterClose

\* C3: a Close call that has returned finds the watch loop exited.
C3_CloseReturnsAfterLoopExit ==
    \A c \in Callers : cpc[c] \in {"returned", "returnedEarly"} => wpc = "exited"

\* A registration is in force while interruptFds leads to its record.
Registered(r) == \E pin \in Lines : LiveReg(pin) = r
\* The handler starts made for a registration: run, or started and yet to run.
Dispatched(r) == regs[r].fired + goroutines[r]

\* C4: UnregisterPin of a line without a registration writes nothing to sysfs,
\* leaves the maps, the exported lines, the descriptors and the epoll instance
\* as they are and starts no handler; after any UnregisterPin the line has no
\* registration, so that a second call is this case.
C4_Step ==
    \A pin \in Lines :
        /\ (~MapHas(interruptFds, pin) /\ UnregisterPin(pin)) =>
              /\ ret'.err = NoErr
              /\ ret'.sys = <<>>
              /\ UNCHANGED dispatchState
              /\ UNCHANGED <<exported, edgeCfg, openFds, closed>>
        /\ UnregisterPin(pin) => ~MapHas(interruptFds', pin)
C4_UnregisterIdempotent == [][C4_Step]_vars
\* UnregisterPin was called on a line whose registration had been removed before.
C4_Witness ==
    /\ ret = [op |-> "UnregisterPin", err |-> NoErr, sys |-> <<>>]
    /\ \E r \in DOMAIN regs : ~Registered(r)
    /\ ~closed

\* C5: no handler start is made for a registration that has been removed,
\* whatever the line does afterwards: the handler runs after UnregisterPin are
\* those started before it. UnregisterPin of one line leaves the records, the
\* descriptors and the exports of the other lines in place.
C5_Step ==
    /\ \A r \in DOMAIN regs : ~Registered(r) => Dispatched(r)' = Dispatched(r)
    /\ \A pin \in Lines : UnregisterPin(pin) =>
          \A q \in Lines \ {pin} :
              /\ MapHas(interruptFds', q) = MapHas(interruptFds, q)
              /\ LiveReg(q)' = LiveReg(q)
              /\ (q \in exported') = (q \in exported)
              /\ MapHas(interruptFds, q) =>
                    /\ MapGet(interruptFds', q) = MapGet(interruptFds, q)
                    /\ (MapGet(interruptFds, q) \in epReg') = (MapGet(interruptFds, q) \in epReg)
                    /\ InSeq(rdllist', MapGet(interruptFds, q)) = InSeq(rdllist, MapGet(interruptFds, q))
C5_UnregisterStopsDispatch == [][C5_Step]_vars
\* A line moved after its registration was removed, while another line's
\* registration is in force and its handler has run.
C5_Witness ==
    \E r, q \in DOMAIN regs :
        /\ ~Registered(r) /\ regs[r].post
        /\ Registered(q) /\ regs[q].pin # regs[r].pin /\ regs[q].fired >= 2

\* The watch loop owes a registration nothing: no wake of its descriptor is
\* ready or collected, no handler start is waiting to run.
Quiescent(r) ==
    /\ goroutines[r] = 0
    /\ \A pin \in Lines : LiveReg(pin) = r =>
          /\ ~InSeq(rdllist, MapGet(interruptFds, pin))
          /\ ~InSeq(batch, MapGet(interruptFds, pin))

\* C6: while its line has made no transition, a registration's handler is
\* started once, not more.
C6_InitialCallOnce ==
    \A r \in DOMAIN regs : (Registered(r) /\ regs[r].trans = 0) => Dispatched(r) <= 1

\* C7: the handler is started once for the registration and once for each
\* transition its edge setting matches, never more; and if every transition
\* came after the initial call, then once the watch loop owes the registration
\* nothing the handler has run exactly that often.
C7_OncePerMatchingEdge ==
    \A r \in DOMAIN regs : Registered(r) =>
        /\ Dispatched(r) <= 1 + regs[r].matched
        /\ (Quiescent(r) /\ ~regs[r].early) => regs[r].fired = 1 + regs[r].matched

\* ------------------------------------------------------------ the register map
\* C8: Open on an open register map returns ErrAlreadyOpen and leaves the word
\* view and the mapping as they were; Open on a map that is not open (at the
\* start or after Close) succeeds when the device can be opened and mapped, and
\* yields the full word view.
C8_Step ==
    \A devOk \in BOOLEAN, mmapOk \in BOOLEAN :
        Open(devOk, mmapOk) =>
            IF mem8 = "mapped"
            THEN /\ ret'.err = ErrAlreadyOpen
                 /\ mem' = mem /\ mem8' = mem8
                 /\ mem'.len = memLength \div 4
            ELSE (devOk /\ mmapOk) =>
                    /\ ret'.err = NoErr
                    /\ mem8' = "mapped"
                    /\ mem'.len = memLength \div 4
C8_OpenTwiceAndReopen == [][C8_Step]_vars

\* Open was refused on a map that had been closed and opened again before.
C8_Witness ==
    /\ ret.op = "Open" /\ ret.err = ErrAlreadyOpen
    /\ mem8 = "mapped"
    /\ \E c \in Callers : cpc[c] = "returned"

\* C9: a NewPin call panics and yields no Pin exactly when no live mapping
\* exists: before the first Open, after an Open that failed, after Close.
C9_PanicsUnlessOpen ==
    ret.op = "NewPin" =>
        /\ (newPin.res = Panic) <=> (mem8 # "mapped")
        /\ (newPin.res = Panic) => (newPin.p = NoPin)
        /\ (mem8 = "mapped") => (newPin.res \in {"nil", "pin"})

\* NewPin panicked on a map that had been opened and closed.
C9_Witness ==
    /\ ret.op = "NewPin"
    /\ mem8 = "unmapped"
    /\ newPin.res = Panic

\* C10: a NewPin call that did not panic returned nil exactly for the line
\* numbers below 0 or from MaxGPIOPin up, and for 0..MaxGPIOPin-1 a Pin whose
\* Pin() is the line number.
C10_RangeCheck ==
    /\ newPin.res = "nil" => (newPin.arg < 0 \/ newPin.arg >= MaxGPIOPin)
    /\ newPin.res = "pin" =>
           /\ newPin.arg \in 0..(MaxGPIOPin - 1)
           /\ newPin.p # NoPin
           /\ PinNumber(newPin.p) = newPin.arg

\* The highest supported line number yields a Pin.
C10_Witness ==
    /\ ret.op = "NewPin"
    /\ newPin.res = "pin"
    /\ newPin.arg = MaxGPIOPin - 1
    /\ mem8 = "mapped"

\* ------------------------------------------------------------ Pin
\* C11: when the last call on a Pin was Write(l) on a line in Output mode, a
\* Read of that line, or of a line in another mode that a jumper joins to it,
\* returns l.
C11_Step ==
    \A o \in 1..MaxPins :
        (/\ pinRet.op = "Write" /\ ~pinRet.panic
         /\ ModeOfLine(pinObj[pinRet.obj].pin) = Output
         /\ Read(o)
         /\ ~pinRet'.panic
         /\ \/ pinObj[o].pin = pinObj[pinRet.obj].pin
            \/ /\ pinObj[o].pin \in Net(pinObj[pinRet.obj].pin)
               /\ ModeOfLine(pinObj[o].pin) # Output)
        => pinRet'.level = pinRet.level
C11_WriteThenRead == [][C11_Step]_vars

\* Line 2, an input, read high through the jumper from line 1's output latch
\* while nothing outside drives the wire high.
C11_Witness ==
    /\ pinRet.op = "Read" /\ ~pinRet.panic /\ pinRet.level = High
    /\ pinObj[pinRet.obj].pin = 2
    /\ looped
    /\ ModeOfLine(1) = Output /\ ModeOfLine(2) = Input
    /\ 1 \in gpout
    /\ ~level[1]

\* C12: Toggle stores the complement of the Pin's shadow, whatever the level
\* register holds, so the shadow is the level it had before the run of Toggle
\* calls when their number is even and its complement when it is odd.
C12_Step ==
    \A o \in 1..MaxPins :
        (Toggle(o) /\ ~pinRet'.panic) =>
            /\ Shadow(o)' = ~Shadow(o)
            /\ (pinObj[o].pin \in gpout') <=> ~Shadow(o)
C12_Parity ==
    \A o \in 1..MaxPins :
        pinObj[o] # NoPin =>
            Shadow(o) = IF toggled[o].n % 2 = 0 THEN toggled[o].base ELSE ~toggled[o].base
C12_ToggleFromShadow == [][C12_Step]_vars /\ []C12_Parity

\* Two Toggle calls after Write(High) on a line in another mode than Output
\* whose pad is low: the shadow is High again, the level register says Low.
C12_Witness ==
    /\ pinRet.op = "Toggle" /\ ~pinRet.panic
    /\ toggled[pinRet.obj] = [base |-> High, n |-> 2]
    /\ Shadow(pinRet.obj) = High
    /\ ~PadLevel(pinObj[pinRet.obj].pin)

\* C13: SetMode(m) leaves the line's mode field at m, for each of the eight
\* modes, and a Mode call that follows it returns m; Input and Output leave the
\* field at Input and at Output.
C13_Step ==
    \A o \in 1..MaxPins :
        /\ (/\ pinRet.op = "SetMode" /\ pinRet.obj = o /\ ~pinRet.panic
            /\ Mode(o) /\ ~pinRet'.panic)
           => pinRet'.mode = pinRet.mode
        /\ \A m \in Modes :
              (SetMode(o, m) /\ ~pinRet'.panic) => ModeOfLine(pinObj[o].pin)' = m
        /\ (PinInput(o) /\ ~pinRet'.panic) => ModeOfLine(pinObj[o].pin)' = Input
        /\ (PinOutput(o) /\ ~pinRet'.panic) => ModeOfLine(pinObj[o].pin)' = Output
C13_SetModeThenMode == [][C13_Step]_vars

\* Mode returned Alt3 for the highest supported line.
C13_Witness ==
    /\ pinRet.op = "Mode" /\ ~pinRet.panic
    /\ pinRet.mode = Alt3
    /\ pinObj[pinRet.obj].pin = MaxGPIOPin - 1

\* C14: the fields of a constructed Pin follow from its line number n: bank
\* n div 32, mask 2^(n mod 32), mode register n div 10 with shift (n mod 10)*3,
\* level, set and clear registers 13, 7 and 10 plus the bank; two Pins
\* constructed for one line number agree in all of them.
C14_DerivedFields ==
    /\ \A o \in 1..MaxPins :
          pinObj[o] # NoPin =>
              LET n == pinObj[o].pin
                  p == pinObj[o]
              IN /\ p.bank = n \div 32
                 /\ p.mask = 2 ^ (n % 32)
                 /\ p.fsel = n \div 10
                 /\ ModeShift(p.pin) = (n % 10) * 3
                 /\ p.levelReg = 13 + n \div 32
                 /\ p.setReg = 7 + n \div 32
                 /\ p.clearReg = 10 + n \div 32
    /\ \A o1, o2 \in 1..MaxPins :
          (pinObj[o1] # NoPin /\ pinObj[o1].pin = pinObj[o2].pin) =>
              [pinObj[o1] EXCEPT !.shadow = Low] = [pinObj[o2] EXCEPT !.shadow = Low]

\* Two Pins for line 1, constructed at different levels of its wire.
C14_Witness ==
    /\ pinObj[1] # NoPin /\ pinObj[2] # NoPin
    /\ pinObj[1].pin = 1 /\ pinObj[2].pin = 1
    /\ pinObj[1].shadow # pinObj[2].shadow

\* C15: the masks of two Pins on distinct lines of one bank differ, and each
\* has exactly one bit set, below bit 32.
RECURSIVE OneBit(_)
OneBit(m) == m = 1 \/ (m > 1 /\ m % 2 = 0 /\ OneBit(m \div 2))
C15_MasksDistinct ==
    \A o1, o2 \in 1..MaxPins :
        (/\ pinObj[o1] # NoPin /\ pinObj[o2] # NoPin
         /\ pinObj[o1].pin # pinObj[o2].pin
         /\ pinObj[o1].bank = pinObj[o2].bank)
        => /\ pinObj[o1].mask # pinObj[o2].mask
           /\ OneBit(pinObj[o1].mask)
           /\ pinObj[o1].mask \div (2 ^ 16) < 2 ^ 16

\* Pins for the lowest and the highest supported line.
C15_Witness ==
    /\ pinObj[1] # NoPin /\ pinObj[2] # NoPin
    /\ pinObj[1].pin = 0
    /\ pinObj[2].pin = MaxGPIOPin - 1

\* The faults that make RegisterPin fail after export and waitExported succeeded.
LateFaults == {"setEdge", "openValue", "nonblock", "epollctl"}

\* C16: a RegisterPin that exported the line and then fails (setting the edge,
\* opening the value file, making it non-blocking, adding it to epoll) returns
\* the error, has written unexport as its last access to sysfs so that the line
\* is not exported on return, and leaves both maps without a record for it.
C16_Step ==
    \A pin \in FaultPins, edge \in FaultEdges, handler \in FaultHandlers, fault \in Faults :
        (/\ ~MapHas(interruptFds, pin)
         /\ pin \notin exported
         /\ fault # "exportOpen"
         /\ waitExported(fault).err = NoErr
         /\ ret'.op = "RegisterPin"
         /\ RegisterPin(pin, edge, handler, fault)) =>
            /\ fault \in LateFaults => ret'.err = ErrIO
            /\ ret'.err \notin {NoErr, Panic} =>
                /\ ret'.sys[1] = "export"
                /\ ret'.sys[Len(ret'.sys)] = "unexport"
                /\ pin \notin exported'
                /\ UNCHANGED <<interruptFds, interrupts, regs, epReg>>
C16_RollbackOnFailure == [][C16_Step]_vars
\* After a registration of the line was made and removed, a RegisterPin of it
\* failed past setEdge and left it unexported and without a record.
C16_Witness ==
    /\ regs # <<>>
    /\ LiveReg(1) = 0
    /\ 1 \notin exported
    /\ ret.op = "RegisterPin"
    /\ ret.err = ErrIO
    /\ ret.sys = <<"export", "edge", "unexport">>

\* C17: RegisterPin of a line that has no registration and is already exported
\* on sysfs goes on past export: it returns nil and the line has a record.
C17_Step ==
    \A pin \in FaultPins, edge \in FaultEdges, handler \in FaultHandlers :
        (/\ ~MapHas(interruptFds, pin)
         /\ pin \in exported
         /\ ret'.op = "RegisterPin"
         /\ RegisterPin(pin, edge, handler, "none")) =>
            /\ ret'.err = NoErr
            /\ MapHas(interruptFds', pin)
C17_BusyExportProceeds == [][C17_Step]_vars

\* The calls of time.Sleep among the steps of a call.
Sleeps(sys) == Cardinality({i \in DOMAIN sys : sys[i] = "sleep"})

\* waitWriteable on a file whose first `failing` checks fail: nil after
\* `failing` sleeps when at most maxTry checks fail, ErrTimeout after maxTry
\* sleeps otherwise.
C18_Bounded ==
    \A failing \in 0..(maxTry + 2) :
        waitWriteable(failing) =
            IF failing <= maxTry THEN [err |-> NoErr, sleeps |-> failing]
            ELSE [err |-> ErrTimeout, sleeps |-> maxTry]

\* C18: the wait for the value and edge files of a line just exported ends
\* after at most 10 sleeps per file: with success when each file is writable
\* by its 11th check, so that RegisterPin goes on to set the edge, and with
\* ErrTimeout otherwise, which is what RegisterPin returns.
C18_Step ==
    \A pin \in FaultPins, edge \in FaultEdges, handler \in FaultHandlers, fault \in Faults :
        (/\ ~MapHas(interruptFds, pin)
         /\ pin \notin exported
         /\ fault # "exportOpen"
         /\ ret'.op = "RegisterPin"
         /\ RegisterPin(pin, edge, handler, fault)) =>
            /\ Sleeps(ret'.sys) <= 2 * maxTry
            /\ IF FailingValue(fault) <= maxTry /\ FailingEdge(fault) <= maxTry
               THEN /\ ret'.err # ErrTimeout
                    /\ Sleeps(ret'.sys) = FailingValue(fault) + FailingEdge(fault)
                    /\ fault \in {"none", "slow"} /\ FreeFds # {} /\ epfdOpen =>
                           ret'.err \in {NoErr, Panic}
               ELSE /\ ret'.err = ErrTimeout
                    /\ Sleeps(ret'.sys) \in {maxTry, FailingValue(fault) + maxTry}
                    /\ UNCHANGED <<interruptFds, interrupts, regs>>
C18_WaitTerminates == [][C18_Step]_vars /\ []C18_Bounded
\* RegisterPin returned ErrTimeout after the ten sleeps of one wait.
C18_Witness ==
    /\ ret.op = "RegisterPin"
    /\ ret.err = ErrTimeout
    /\ Sleeps(ret.sys) = maxTry
    /\ Len(ret.sys) = maxTry + 1

\* The descriptors under which the Watcher holds a record of the line.
Records(pin) == {fd \in DOMAIN interrupts.tab : interrupts.tab[fd].pin = pin}

\* C19: the calls of RegisterPin and UnregisterPin run one at a time under the
\* Watcher's mutex, in any order; whatever the order, a line has at most one
\* record, the one interruptFds names, and a RegisterPin succeeds only for a
\* line that had none, so that of two calls for a line one is rejected.
C19_AtMostOne ==
    \A pin \in Lines :
        /\ Cardinality(Records(pin)) <= 1
        /\ Records(pin) # {} =>
               MapHas(interruptFds, pin) /\ Records(pin) = {MapGet(interruptFds, pin)}
C19_Step ==
    Len(regs') > Len(regs) =>
        LET pin == regs'[Len(regs')].pin IN
        /\ ret'.err = NoErr
        /\ Records(pin) = {}
        /\ ~MapHas(interruptFds, pin)
C19_OneRecordPerLine == [][C19_Step]_vars /\ []C19_AtMostOne
\* Both lines hold a record and a further RegisterPin of one was rejected.
C19_Witness ==
    /\ \A pin \in Lines : Cardinality(Records(pin)) = 1
    /\ ret.op = "RegisterPin"
    /\ ret.err = ErrBusy

\* C20: the Close that closes the Watcher closes the value file and unexports
\* the line of every record it finds, one unexport each, and sets both maps to
\* nil before it gives up the mutex; so whenever a Close call is past the
\* mutex or has returned, neither map holds a record and no registration is live.
C20_Step ==
    (~closed /\ closed') =>
        /\ \A fd \in DOMAIN interrupts.tab :
              /\ interrupts.tab[fd].valueFile \notin DOMAIN openFds'
              /\ interrupts.tab[fd].valueFile \notin epReg'
              /\ interrupts.tab[fd].pin \notin exported'
        /\ ret' = [op |-> "Close", err |-> NoErr,
                   sys |-> Unexports(Cardinality(DOMAIN interrupts.tab))]
        /\ interrupts' = NilMap
        /\ interruptFds' = NilMap
C20_NoRecord ==
    \A c \in Callers :
        cpc[c] \in {"waitDone", "returned", "returnedEarly"} =>
            /\ interrupts = NilMap
            /\ interruptFds = NilMap
            /\ \A r \in DOMAIN regs : ~Live(r)
C20_CloseTearsDown == [][C20_Step]_vars /\ []C20_NoRecord
\* Close found a registration, unexported its line and has returned.
C20_Witness ==
    /\ cpc[1] = "returned"
    /\ regs # <<>>
    /\ ret = [op |-> "Close", err |-> NoErr, sys |-> Unexports(1)]
    /\ exported = {}
    /\ DOMAIN openFds = {}

\* C21: the step of gpio.Close that empties the word view and unmaps comes after
\* the teardown of the default Watcher: defaultWatcher is nil, and where there
\* was one its Close has returned, it is closed without records and its loop
\* has exited. A gpio.Close that finds no default Watcher leaves the Watcher's
\* state, the exported lines and the descriptors alone. After a Close, Open
\* succeeds when the device can be mapped, and getDefaultWatcher on behalf of
\* Watch makes a fresh open Watcher with empty maps.
C21_Step ==
    /\ (ret'.op = "Close" /\ mem8 = "mapped" /\ mem8' = "unmapped") =>
          /\ defaultWatcher = "nil"
          /\ mem'.len = 0
          /\ memlock # 0 =>
                /\ cpc[memlock] = "returned"
                /\ closed
                /\ wpc = "exited"
                /\ interrupts = NilMap /\ interruptFds = NilMap
    /\ (defaultWatcher = "nil" /\ memlock = 0 /\ Close) =>
          /\ UNCHANGED <<watcherFields, kernelAndHistory, memlock, defaultWatcher>>
          /\ mem'.len = 0
    /\ (mem8 = "unmapped" /\ mem.len = 0 /\ Open(TRUE, TRUE)) =>
          /\ ret'.err = NoErr
          /\ mem8' = "mapped"
    /\ (defaultWatcher = "nil" /\ getDefaultWatcher) =>
          /\ defaultWatcher' = "live"
          /\ ~closed'
          /\ interrupts' = EmptyMap /\ interruptFds' = EmptyMap
          /\ wpc' = "wait"
C21_CloseOrder == [][C21_Step]_vars
\* A registration made through Watch was torn down by gpio.Close once, and the
\* last call was a gpio.Close that found the map already unmapped.
C21_Witness ==
    /\ regs # <<>>
    /\ cpc[1] = "returned"
    /\ cpc[2] = "idle"
    /\ ret.op = "Close"
    /\ ret.err = EINVAL
    /\ defaultWatcher = "nil"

\* C22: between the calls of Open and Close the register map is in one of two
\* states: mapped, with the full word view over the one live mapping, or
\* unmapped, with the empty word view and no live mapping. An Open that fails
\* leaves it unmapped, and an Open of an unmapped map is not rejected: it
\* succeeds when the device can be opened and mapped.
C22_AllOrNothing ==
    memlock = 0 =>
        \/ mem.len = memLength \div 4 /\ mem8 = "mapped" /\ mappings = 1
        \/ mem.len = 0 /\ mem8 \in {"nil", "unmapped"} /\ mappings = 0
C22_Step ==
    \A devOk \in BOOLEAN, mmapOk \in BOOLEAN :
        (mem.len = 0 /\ Open(devOk, mmapOk)) =>
            /\ ret'.err # ErrAlreadyOpen
            /\ ret'.err = NoErr <=> (devOk /\ mmapOk)
            /\ ret'.err # NoErr => mem'.len = 0 /\ mem8' # "mapped" /\ mappings' = 0
C22_MappedOrUnmapped == [][C22_Step]_vars /\ []C22_AllOrNothing
\* An Open failed on a map that had been opened and closed.
C22_Witness ==
    /\ ret = [op |-> "Open", err |-> ErrIO, sys |-> <<>>]
    /\ mem8 = "unmapped"
    /\ mem.len = 0

\* A wake of the descriptor is on the epoll ready list or among the events the
\* loop has yet to handle.
Pending(fd) == InSeq(rdllist, fd) \/ InSeq(batch, fd)
\* The descriptor of the record of a registration (0: it has none).
FdOf(r) ==
    IF \E fd \in DOMAIN interrupts.tab : interrupts.tab[fd].reg = r
    THEN CHOOSE fd \in DOMAIN interrupts.tab : interrupts.tab[fd].reg = r
    ELSE 0

\* C23: while the handler of line BlockedLine never returns, a wake of a
\* descriptor with a live record leads to a further start of that record's
\* handler, for the other line and for line BlockedLine alike.
C23_WakeLeadsToHandler ==
    \A r \in 1..MaxRegs, k \in 0..(MaxDrives + 1) :
        (r \in DOMAIN regs /\ Live(r) /\ Pending(FdOf(r)) /\ Dispatched(r) = k)
            ~> (r \in DOMAIN regs /\ Dispatched(r) > k)
\* The handler of line BlockedLine has not returned from its first start, it
\* was started again for a later wake, and the handler of the other line ran
\* for its first wake and for a later one.
C23_Witness ==
    \E a, b \in DOMAIN regs :
        /\ regs[a].pin = BlockedLine /\ regs[a].fired = 0 /\ goroutines[a] >= 2
        /\ regs[b].pin # BlockedLine /\ regs[b].fired >= 2

\* The calls on a Pin that read or write the level.
LevelOps == {"Read", "Write", "Toggle"}

\* C24: after a Read the shadow of its Pin is the level it returned, after a
\* Write, High, Low or Toggle the level it wrote; and the shadow of a Pin
\* changes in no other step: not in a call on another Pin of the same line, not
\* when the level changes from outside. So Shadow() is the level of the most
\* recent such call on the Pin itself.
C24_Step ==
    \A o \in 1..MaxPins :
        (pinObj[o] # NoPin /\ Shadow(o)' # Shadow(o)) =>
            /\ pinRet'.obj = o
            /\ pinRet'.op \in LevelOps
            /\ ~pinRet'.panic
C24_LastCall ==
    (pinRet.op \in LevelOps /\ ~pinRet.panic) => Shadow(pinRet.obj) = pinRet.level
C24_ShadowIsLastAccess == [][C24_Step]_vars /\ []C24_LastCall
\* Two Pins of one line whose shadows differ: the line was written through the
\* second after the first had read it.
C24_Witness ==
    /\ pinObj[1] # NoPin
    /\ pinObj[2] # NoPin
    /\ pinObj[1].pin = pinObj[2].pin
    /\ Shadow(1) # Shadow(2)
    /\ pinRet.obj = 2
    /\ pinRet.op = "Write"

\* The threads that hold memlock: past Lock and not yet returned.
Inside == {t \in Threads : tpc[t].pc # "idle"}

\* The mode of a line after the step.
ModeAfter(l) == ModeField(gpfsel'[l \div 10], ModeShift(l))

\* C25: the store of a SetMode call sets the mode field of its line to the
\* mode asked for and leaves the mode of every other line as it is at that
\* moment, so that the update of another thread to a line of the same register
\* is kept; no other step changes a function select register; and at most one
\* thread at a time is between the Lock and the return of SetMode.
C25_Step ==
    /\ \A t \in Threads :
          (tpc[t].op = "SetMode" /\ tpc[t].pc = "loaded" /\ tpc'[t].pc = "idle") =>
              LET p == pinObj[tpc[t].o].pin IN
              /\ ModeAfter(p) = tpc[t].arg
              /\ \A l \in SupportedLines \ {p} : ModeAfter(l) = ModeOfLine(l)
    /\ gpfsel' # gpfsel =>
          \E t \in Threads : tpc[t].pc = "loaded" /\ tpc'[t].pc = "idle"
C25_OneInside == Cardinality(Inside) <= 1
C25_OnlyOwnField == [][C25_Step]_vars /\ []C25_OneInside
\* Two Pins on two lines of one function select register, each set to a mode
\* of its own, while a thread is in a further SetMode of one of them.
C25_Witness ==
    /\ pinObj[1] # NoPin /\ pinObj[2] # NoPin
    /\ pinObj[1].pin # pinObj[2].pin
    /\ pinObj[1].fsel = pinObj[2].fsel
    /\ ModeOfLine(pinObj[1].pin) = Alt3
    /\ ModeOfLine(pinObj[2].pin) = Output
    /\ \E t \in Threads : tpc[t].pc = "loaded" /\ tpc[t].o = 1 /\ tpc[t].arg = Input

\* C26: a Write through a Pin of line p puts p's output latch at the level
\* written and leaves the latch of every other line, the function select
\* registers and the pull registers as they are, whatever the other threads
\* have written before; the latches change in no other step; and Write waits
\* for no lock: it can be taken in every state in which a thread holds memlock.
C26_Step ==
    /\ (pinRet'.op = "Write" /\ ~pinRet'.panic /\ (pinRet' # pinRet \/ gpout' # gpout)) =>
          LET p == pinObj[pinRet'.obj].pin IN
          /\ gpout' = IF pinRet'.level = High THEN gpout \cup {p} ELSE gpout \ {p}
          /\ UNCHANGED <<gpfsel, gppud, gpclk, gppull, pulls, memlock, tpc>>
    /\ gpout' # gpout => pinRet'.op = "Write" /\ ~pinRet'.panic
C26_NoLock ==
    \A o \in 1..MaxPins, lv \in {Low, High} :
        (memlock # 0 /\ pinObj[o] # NoPin) => ENABLED Write(o, lv)
C26_WriteOwnBit == [][C26_Step]_vars /\ []C26_NoLock
\* Two Pins on two lines of one bank: the first line is high, the second was
\* written low after it, and a thread holds memlock.
C26_Witness ==
    /\ pinObj[1] # NoPin /\ pinObj[2] # NoPin
    /\ pinObj[1].pin # pinObj[2].pin
    /\ pinObj[1].bank = pinObj[2].bank
    /\ gpout = {pinObj[1].pin}
    /\ pinRet = [op |-> "Write", obj |-> 2, panic |-> FALSE, level |-> Low, mode |-> Input]
    /\ Shadow(1) = High
    /\ memlock # 0

\* The threads between the first and the last register write of setPull2835.
InPull == {t \in Threads : tpc[t].pc \in {"sel", "clk", "selclr"}}

\* C27: on the BCM2835 the register writes of a SetPull call are, in this
\* order: the selector into register 37, the mask of the line alone into the
\* clock-latch register of its bank, register 37 with the selector bits
\* cleared, the clock-latch register cleared. The pulse makes the line take
\* the selector and no other line. While the call runs the clock-latch
\* registers hold no bit but that of the line, and outside of a call the
\* selector bits and the clock-latch registers are clear.
C27_Step ==
    \A t \in Threads :
        LET p == pinObj[tpc[t].o] IN
        /\ (tpc[t].pc = "sel" /\ tpc'[t].pc = "clk") =>
              pulls' = [pulls EXCEPT ![p.pin] = tpc[t].arg]
        /\ (tpc[t].pc = "selclr" /\ tpc'[t].pc = "idle") =>
              /\ tpc[t].log = << <<pullReg2835, BitsOf(tpc[t].arg)>>,
                                 <<38 + p.bank, {p.pin % 32}>>,
                                 <<pullReg2835, {}>> >>
              /\ gpclk[p.bank] # {}
              /\ gpclk'[p.bank] = {}
              /\ gppud' = {}
              /\ pulls'[p.pin] = tpc[t].arg
C27_Registers ==
    /\ \A t \in InPull :
          LET p == pinObj[tpc[t].o] IN
          /\ \A b \in DOMAIN gpclk :
                gpclk[b] = IF b = p.bank /\ tpc[t].pc \in {"clk", "selclr"}
                           THEN {p.pin % 32} ELSE {}
          /\ Field2(gppud, 0) = IF tpc[t].pc = "selclr" THEN 0 ELSE tpc[t].arg
    /\ InPull = {} => gppud = {} /\ \A b \in DOMAIN gpclk : gpclk[b] = {}
C27_PullSequence == [][C27_Step]_vars /\ []C27_Registers
\* A SetPull call has latched pull-up for one line and, after it, another call
\* has pulsed the clock for a second line with pull-down.
C27_Witness ==
    /\ chipset = BCM2835
    /\ \E t \in Threads :
          /\ tpc[t].pc = "clk"
          /\ tpc[t].arg = PullDown
          /\ pulls[pinObj[tpc[t].o].pin] = PullDown
          /\ \E l \in SupportedLines : l # pinObj[tpc[t].o].pin /\ pulls[l] = PullUp

\* The registers SetMode and SetPull write.
lockedRegs == <<gpfsel, gppud, gpclk, gppull>>

\* C28: a thread writes a function select or pull register only while it
\* holds memlock and no other thread is inside SetMode or SetPull; in
\* particular no thread writes one while another is between the selector
\* write and the clearing of the clock-latch register of setPull2835, and the
\* selector in register 37 at the clock pulse of a call is the one that call
\* was given.
C28_Step ==
    \A t \in Threads :
        /\ (tpc'[t] # tpc[t] /\ lockedRegs' # lockedRegs) =>
              /\ memlock = LockOf(t)
              /\ Inside = {t}
              /\ InPull \ {t} = {}
        /\ (tpc[t].pc = "sel" /\ tpc'[t].pc = "clk") => Field2(gppud, 0) = tpc[t].arg
C28_Exclusive ==
    /\ Inside # {} => \E t \in Threads : Inside = {t} /\ memlock = LockOf(t)
    /\ Inside = {} => memlock = 0
C28_Serialized == [][C28_Step]_vars /\ []C28_Exclusive
\* A thread is in setPull2835 after its clock pulse, for a line whose mode a
\* SetMode call has set before, while the other Pin's line has its pull latched.
C28_Witness ==
    /\ pinObj[1] # NoPin /\ pinObj[2] # NoPin
    /\ pinObj[1].pin # pinObj[2].pin
    /\ \E t \in Threads : tpc[t].pc = "clk" /\ tpc[t].o = 1 /\ tpc[t].arg = PullUp
    /\ ModeOfLine(pinObj[1].pin) = Output
    /\ pulls[pinObj[2].pin] = PullDown

\* C29: on the BCM2711 a SetPull call on line p stores, in the two-bit field at
\* bit 2 * (p mod 16) of register 57 + p div 16, 1 for PullUp, 2 for PullDown
\* and 0 for PullNone, and leaves every other field of the pull registers and
\* the BCM2835 pull registers as they are.
C29_Step ==
    \A t \in Threads :
        (/\ chipset = BCM2711
         /\ tpc[t].op = "SetPull"
         /\ tpc[t].pc = "locked"
         /\ tpc'[t].pc = "idle"
         /\ mem.len # 0) =>
            LET p == pinObj[tpc[t].o].pin
                pull == tpc[t].arg
            IN
            /\ pinObj[tpc[t].o].pullReg2711 = 57 + p \div 16
            /\ Field2(gppull'[57 + p \div 16], 2 * (p % 16)) =
                   IF pull = PullUp THEN 1 ELSE IF pull = PullDown THEN 2 ELSE 0
            /\ \A r \in DOMAIN gppull, k \in 0..15 :
                   (r # 57 + p \div 16 \/ k # p % 16) =>
                       Field2(gppull'[r], 2 * k) = Field2(gppull[r], 2 * k)
            /\ UNCHANGED <<gppud, gpclk, pulls, gpfsel>>
C29_Field2711 == [][C29_Step]_vars
\* Lines 14 and 15 share register 57: the field of line 14 holds pull-up, the
\* field of line 15, in the two top bits, pull-down.
C29_Witness ==
    /\ chipset = BCM2711
    /\ Field2(gppull[57], 28) = 1
    /\ Field2(gppull[57], 30) = 2
    /\ gppull[58] = {}

\* C30: of two threads that call Open at the same time on an unmapped map at
\* most one returns nil and at most one mapping of the device exists; a call
\* that returns while another one holds a success did not succeed itself.
Succeeded(t) == tpc[t].pc = "done" /\ tpc[t].log = <<NoErr>>
C30_OneOpenWins ==
    /\ mappings <= 1
    /\ \A t, u \in Threads : (t # u /\ Succeeded(t)) => ~Succeeded(u)

\* C35: in every state of a Watcher interruptFds maps line n to descriptor d
\* exactly when interrupts holds under d a record of line n, and the two maps
\* are nil together, whatever calls of RegisterPin, UnregisterPin and Close,
\* failed ones among them, were made.
C35_MapsConsistent ==
    /\ interruptFds.nil = interrupts.nil
    /\ DOMAIN interruptFds.tab \subseteq Lines
    /\ DOMAIN interrupts.tab \subseteq Fds
    /\ \A n \in Lines, d \in Fds :
           (MapHas(interruptFds, n) /\ MapGet(interruptFds, n) = d) <=>
               (MapHas(interrupts, d) /\ MapGet(interrupts, d).pin = n)
\* Line 1 was registered and unregistered, a later RegisterPin failed after it
\* had opened the value file, and line 2 holds a record under the descriptor
\* that is left.
C35_Witness ==
    /\ Len(regs) = 2
    /\ ~MapHas(interruptFds, 1)
    /\ MapHas(interruptFds, 2)
    /\ MapGet(interruptFds, 2) = 2
    /\ DOMAIN openFds = {1, 2}
    /\ ~closed

\* C36: every open value file is the value file of a stored interrupt record,
\* so that as many value files are open as records are stored; a RegisterPin
\* that failed leaves no value file of its line open.
C36_NoValueFileLeft ==
    /\ \A fd \in DOMAIN openFds :
           \E d \in DOMAIN interrupts.tab : interrupts.tab[d].valueFile = fd
    /\ Cardinality(DOMAIN openFds) = Cardinality(DOMAIN interrupts.tab)
    /\ (ret.op = "RegisterPin" /\ ret.err = ErrIO) =>
           \A pin \in Lines : ~MapHas(interruptFds, pin) =>
               \A fd \in DOMAIN openFds : openFds[fd] # pin

\* C32: a RegisterPin call made on a Watcher after Close has closed it returns
\* an error and does not panic, stores no interrupt record and leaves the line
\* unexported.
C32_RegisterOnClosed ==
    (closed /\ ret.op = "RegisterPin") =>
        /\ ret.err \notin {NoErr, Panic}
        /\ DOMAIN interrupts.tab = {}
        /\ DOMAIN interruptFds.tab = {}
        /\ exported = {}

\* C34: the handler of a registration is started only for the wakes raised on
\* that registration, the one of its EPOLL_CTL_ADD and one for each transition
\* of its line that matches the edge setting; a wake collected for the
\* descriptor of another line's registration that was removed starts no handler
\* of a registration that came to hold the same descriptor number.
C34_OwnWakesOnly ==
    \A r \in DOMAIN regs :
        (\A q \in DOMAIN regs : q # r => regs[q].pin # regs[r].pin) =>
            Dispatched(r) <= 1 + regs[r].matched

\* C37: an Unwatch call on a line that has no watch leaves the Watcher state as
\* it is: the default Watcher is the one there was, none if there was none, and
\* no watch loop is started.
C37_Step ==
    \A pin \in Lines :
        (~MapHas(interruptFds, pin) /\ Unwatch(pin)) =>
            /\ UNCHANGED <<defaultWatcher, wpc>>
            /\ UNCHANGED watcherFields
C37_UnwatchNoEffect == [][C37_Step]_vars

\* C38: NewPin sets the shadow of the Pin to the level the line's bit of the
\* level register shows at that moment; until a Read or Write is made through
\* the Pin the shadow stays at that level whatever the line does and whatever
\* is done through other Pins, and the first Toggle writes its complement.
C38_Step ==
    /\ \A pin \in {1, 2} :
           (pinObj[FirstPin] = NoPin /\ pinObj'[FirstPin] # NoPin /\ pinObj'[FirstPin].pin = pin) =>
               /\ Shadow(FirstPin)' = PadLevel(pin)
               /\ toggled'[FirstPin] = [base |-> PadLevel(pin), n |-> 0]
    /\ (pinObj[FirstPin] # NoPin /\ toggled[FirstPin].n = 0 /\ toggled'[FirstPin].n = 1) =>
           /\ pinRet' = [op |-> "Toggle", obj |-> FirstPin, panic |-> FALSE,
                         level |-> ~toggled[FirstPin].base, mode |-> Input]
           /\ Shadow(FirstPin)' = ~toggled[FirstPin].base
           /\ (pinObj[FirstPin].pin \in gpout') <=> ~toggled[FirstPin].base
C38_Untouched ==
    (pinObj[FirstPin] # NoPin /\ toggled[FirstPin].n = 0) =>
        Shadow(FirstPin) = toggled[FirstPin].base
C38_ShadowFromLevel == [][C38_Step]_vars /\ []C38_Untouched
\* The Pin was made on line 1 while it was high and toggled once: it wrote
\* Low; meanwhile the line was written high through the other Pin.
C38_Witness ==
    /\ pinObj[FirstPin] # NoPin
    /\ pinObj[FirstPin].pin = 1
    /\ toggled[FirstPin] = [base |-> High, n |-> 1]
    /\ Shadow(FirstPin) = Low
    /\ pinObj[2] # NoPin
    /\ pinObj[2].pin = 1
    /\ Shadow(2) = High
    /\ pinRet.obj = 2

\* C33: no call on a Pin indexes the word view after gpio.Close has emptied
\* it; a handler that was started before Close and reads the line afterwards
\* does not panic on the emptied view.
C33_NoAccessAfterClose == ~pinRet.panic

\* C31: a gpio.Close call that holds memlock gets to its end and releases it,
\* and the Watcher.Close it makes returns, in every interleaving with the watch
\* loop, with Watch and Unwatch calls and with handlers, whether they return,
\* never run to their end, or wait in SetMode for the lock Close holds.
Closing == memlock \in Callers
C31_CloseReturns ==
    /\ Closing ~> (memlock = 0 /\ ret.op = "Close" /\ mem.len = 0)
    /\ \A c \in Callers : (cpc[c] = "waitDone") ~> (cpc[c] = "returned")
\* gpio.Close has returned while a handler the loop started has not run.
C31_Witness ==
    /\ memlock = 0
    /\ ret.op = "Close"
    /\ cpc[1] = "returned"
    /\ defaultWatcher = "nil"
    /\ wpc = "exited"
    /\ \E r \in DOMAIN regs : goroutines[r] > 0

====
